---- MODULE Spec2Model ----
(***************************************************************************)
(* Events worker (src/events-worker/src/index.js): the jobs table, the     *)
(* idempotency KV and the handlers POST /v1/job/create and                 *)
(* POST /v1/job/event with the hard payment gate (specification Spec).     *)
(* Payments worker (src/payments-worker/src/index.merged.js): the intent   *)
(* KV, the payments and sessions tables, the two ledgers and the handlers  *)
(* POST /v1/pay/verify and POST /v1/payments/notify (specification         *)
(* PaySpec, requests handled one after the other; specification            *)
(* PayRaceSpec, /v1/pay/verify calls that overlap at their awaits).        *)
(*                                                                         *)
(* Strings are TLA+ strings; Len, SubSeq and \o act on them, so trimming,  *)
(* lower-casing and substring search are computed as the code does.        *)
(* A handler is modelled whole: a pure operator computes, from the stored  *)
(* state, the request body and the outcomes of the external calls, the     *)
(* response and everything the handler wrote; the action installs it.      *)
(***************************************************************************)
EXTENDS Integers, Sequences, FiniteSets, TLC

\* ------------------------------------------------------------------ bounds
\* The clock stops the model: requests are handled while now <= MaxNow, and
\* every write to the jobs table (a record created, an event appended)
\* advances the clock by one.
MaxNow == 3

\* ----------------------------------------------------------------- strings
Whitespace == {" ", "\t", "\n", "\r"}

Ch(s, i) == SubSeq(s, i, i)

RECURSIVE TrimLeft(_)
TrimLeft(s) ==
  IF Len(s) = 0 THEN s
  ELSE IF Ch(s, 1) \in Whitespace THEN TrimLeft(SubSeq(s, 2, Len(s)))
  ELSE s

RECURSIVE TrimRight(_)
TrimRight(s) ==
  IF Len(s) = 0 THEN s
  ELSE IF Ch(s, Len(s)) \in Whitespace THEN TrimRight(SubSeq(s, 1, Len(s) - 1))
  ELSE s

\* String.prototype.trim
Trim(s) == TrimRight(TrimLeft(s))

Upper == <<"A","B","C","D","E","F","G","H","I","J","K","L","M",
           "N","O","P","Q","R","S","T","U","V","W","X","Y","Z">>
Lower == <<"a","b","c","d","e","f","g","h","i","j","k","l","m",
           "n","o","p","q","r","s","t","u","v","w","x","y","z">>

\* Each upper-case letter's lower-case letter.
LowerMap ==
  [c \in {Upper[i] : i \in 1..26} |-> Lower[CHOOSE i \in 1..26 : Upper[i] = c]]

LowerCh(c) == IF c \in DOMAIN LowerMap THEN LowerMap[c] ELSE c

\* String.prototype.toLowerCase
RECURSIVE ToLower(_)
ToLower(s) ==
  IF Len(s) = 0 THEN s
  ELSE LowerCh(Ch(s, 1)) \o ToLower(SubSeq(s, 2, Len(s)))

\* String.prototype.includes
Includes(s, sub) ==
  \E i \in 1..(Len(s) - Len(sub) + 1) : SubSeq(s, i, i + Len(sub) - 1) = sub

\* s.replace(/\s+/g, "_"): every maximal run of whitespace becomes one "_".
RECURSIVE ReplaceWs(_)
ReplaceWs(s) ==
  IF Len(s) = 0 THEN s
  ELSE IF Ch(s, 1) \in Whitespace
       THEN "_" \o ReplaceWs(TrimLeft(s))
       ELSE Ch(s, 1) \o ReplaceWs(SubSeq(s, 2, Len(s)))

\* str(v): String(v ?? "").trim(); an absent field is the empty string.
str(v) == Trim(v)

\* env.CONFIRM_KEY: the secret the workers share.
CONFIRM_KEY == "ck"

\* The two Thai spellings of "chat" the code looks for, written by their
\* code points (the module's strings are ASCII).
ThaiChatTho == "{0E41}{0E0A}{0E17}"
ThaiChatTo == "{0E41}{0E0A}{0E15}"

\* A normalization that lower-cases and trims but keeps inner whitespace.
normalizeKeepSpaces(input) ==
  LET lower == ToLower(str(input))
  IN IF (Includes(lower, "t-15") \/ Includes(lower, "t15")
           \/ Includes(lower, "t 15")) /\ Includes(lower, "live")
     THEN "t-15min_open_live_chat"
     ELSE lower

normalizeEventName(input) ==
  LET raw == str(input)
      lower == ToLower(raw)
      hasT15 == Includes(lower, "t-15") \/ Includes(lower, "t15")
                  \/ Includes(lower, "t 15")
      hasLiveChat == Includes(lower, "live chat") \/ Includes(lower, "livechat")
                       \/ Includes(lower, "live")
                       \/ Includes(raw, ThaiChatTho) \/ Includes(raw, ThaiChatTo)
  IN IF hasT15 /\ hasLiveChat THEN "t-15min_open_live_chat"
     ELSE ReplaceWs(Trim(lower))

\* ------------------------------------------------------------ dispatch rules
DISPATCH_STATES ==
  << "confirmed", "reminder", "en_route", "nearby", "arrived", "met_customer",
     "final_payment_pending", "final_payment_confirmed", "work_started",
     "work_finished", "separated", "review", "payout", "closed" >>

\* DISPATCH_STATES.includes(s)
IsDispatchState(s) == \E i \in 1..Len(DISPATCH_STATES) : DISPATCH_STATES[i] = s

\* A check that looks at the newest event only.
LastIsFinalPaymentConfirmed(events) ==
  Len(events) > 0 /\ events[Len(events)].event = "final_payment_confirmed"

hasFinalPaymentConfirmed(events) ==
  \E i \in 1..Len(events) : events[i].event = "final_payment_confirmed"

\* -------------------------------------------------------------------- JSON
\* JSON.stringify / JSON.parse: the stored text is the value under a "json"
\* tag; any other text does not parse.
JSONstringify(v) == << "json", v >>
JSONparses(text) == Len(text) = 2 /\ text[1] = "json"
JSONparse(text) == text[2]

\* The text "null": it parses, to a value that is not an array.
NullText == << "null" >>

\* ------------------------------------------------------------------- inputs
\* Request bodies are parsed JSON objects; an absent field is "".
\* Math.random().toString(36).slice(2, 8).toUpperCase()
RandIn == {"A1B2C3"}

\* job/create bodies: a client-assigned job_id with and without a status, a
\* server-assigned job_id, and one with a required field missing.
CreateBodies ==
  [cid : {"C1"}, session_id : {"S1"}, model_code : {"M1"},
   schedule_start_at : {"2026-01-01T10:00"}, job_id : {"J1"},
   status : {"", "work_started"}]
    \cup [cid : {" c#1 "}, session_id : {"S1"}, model_code : {"M1"},
          schedule_start_at : {"2026-01-01T10:00"}, job_id : {""},
          status : {""}]
    \cup [cid : {""}, session_id : {"S1"}, model_code : {"M1"},
          schedule_start_at : {"2026-01-01T10:00"}, job_id : {"J1"},
          status : {""}]

EventIn == {"final_payment_confirmed", " Work  Started", "T-15 Live Chat"}
EventStatusIn == {"", " work_started "}
KeyIn == {"", "k1"}

\* job/event bodies for the job J1 (with an idempotency key: the live-chat
\* event, and events with no status), three that fail before the record
\* is loaded (no job_id, no event, a job_id no record has), and one with two
\* notifications.
EventBodies ==
  [job_id : {"J1"}, event : EventIn, status : EventStatusIn, by : {""},
   data : {"null"}, idempotency_key : {""}]
    \cup [job_id : {"J1"}, event : {"T-15 Live Chat", "final_payment_confirmed"},
          status : {""}, by : {"per"}, data : {"null"},
          idempotency_key : {" k1"}]
    \cup [job_id : {" ", "J9"}, event : {"Nearby"}, status : {""}, by : {"per"},
          data : {"null"}, idempotency_key : {"k1"}]
    \cup [job_id : {"J1"}, event : {"  "}, status : {""}, by : {""},
          data : {"null"}, idempotency_key : {""}]
    \cup [job_id : {"J1"}, event : {"Nearby"}, status : {""}, by : {""},
          data : {"null"}, idempotency_key : {""}]

\* The idempotency keys a request can carry after str().
IdemKeys == {str(k) : k \in KeyIn} \ {""}

\* Outcomes of the external calls of one request.
\*   at_find, at_write: the Airtable query / create / patch answers 2xx or not
\*   rt: the realtime worker answers 2xx, answers an error, or RT_BASE_URL
\*       (or the confirm key) is not configured
\*   tg[i]: the i-th telegram-worker send answers 2xx, answers an error, is
\*       skipped (base url or token not configured), or fetch itself rejects
\*   kv_get, kv_put: the KV call resolves or rejects
RtOutcomes == {"ok", "failed", "unconfigured"}
TgOutcomes == {"ok", "failed", "skipped", "throws"}
AllOk ==
  [at_find |-> "ok", at_write |-> "ok", rt |-> "ok",
   tg |-> << "ok", "ok" >>, kv_get |-> "ok", kv_put |-> "ok"]
\* All calls succeed, or exactly one of them does not.
Outcomes ==
  {AllOk}
    \cup {[AllOk EXCEPT !.at_find = "fail"], [AllOk EXCEPT !.at_write = "fail"],
          [AllOk EXCEPT !.kv_get = "throws"], [AllOk EXCEPT !.kv_put = "throws"]}
    \cup {[AllOk EXCEPT !.rt = o] : o \in RtOutcomes}
    \cup {[AllOk EXCEPT !.tg[1] = o] : o \in TgOutcomes}
    \cup {[AllOk EXCEPT !.tg[2] = "failed"]}

\* -------------------------------------------------------------------- state
VARIABLES
  jobs,     \* the Airtable jobs table: a sequence of records, id = position
  kv,       \* EVENTS_IDEMPOTENCY_KV: KV key -> stored text, << >> when absent
  kvBound,  \* whether env.EVENTS_IDEMPOTENCY_KV is bound
  now,      \* the clock nowIso() reads
  last,     \* the last request handled: the handler, the status code it
            \* answered, and what it did (see Did)
  firstOk,  \* history (store bound): per idempotency key, the first request
            \* answered with a freshly computed 200 and its result
  ran,      \* history (store bound): per idempotency key, how often calls
            \* carrying it appended an event / made each side-effect call
  gated     \* history (store bound): per idempotency key, whether a call
            \* carrying it was stopped by the hard gate (409)

\* The payments worker (src/payments-worker/src/index.merged.js).
VARIABLES
  payKv,          \* PAY_SESSIONS_KV: key -> value (a function on the keys put)
  payments,       \* the Airtable payments table, id = "P" \o position
  sessions,       \* the Airtable sessions table
  memberPackages, \* the member_packages ledger
  pointsLedger,   \* the points_ledger
  nextRef,        \* the number of the next uuidv4() draw
  paySteps,       \* the number of payments requests answered 200 (or that
                  \* wrote before they failed)
  issued,         \* history: the 200 answers of /v1/pay/verify, in order,
                  \* each with whether the KV held the intent before the call
  notified,       \* history: per transaction_ref, what each notify call did
  inflight        \* overlapping /v1/pay/verify calls: caller -> its position

\* The session payment-intent helper (src/unnamed/part_000).
VARIABLES
  depositPercentEnv, \* env.DEPOSIT_PERCENT, "" when not set
  roundStepEnv,      \* env.DEPOSIT_ROUND_STEP, "" when not set
  sessionAmount,     \* AMOUNT_THB of the session S1 in the Sessions table
  depositPayments,   \* the amounts of the paid deposit payments of S1 in the
                     \* Payments table, in the order they were paid
  verifyCalls,       \* the payloads the helper sent to /v1/pay/verify
  intentLast         \* the helper's last answer and what it did

evVars == << jobs, kv, kvBound, now, last, firstOk, ran, gated >>
intentVars == << depositPercentEnv, roundStepEnv, sessionAmount,
                depositPayments, verifyCalls, intentLast >>
payVars == << payKv, payments, sessions, memberPackages, pointsLedger, nextRef,
             paySteps, issued, notified >>
vars == << evVars, payVars, inflight, intentVars >>

KvKeys == {"idem:" \o k : k \in IdemKeys}
EffectKinds == {"append", "rt_open", "telegram_notify", "meeting_point_and_qr",
                "review_tip", "payout_notice"}
SideEffectCalls == EffectKinds \ {"append"}

\* The helper's answer before any request.
NoIntent ==
  [code |-> 0, stage |-> "", action |-> "", amount_thb |-> 0,
   deposit_expected |-> 0, deposit_paid_total |-> 0, called |-> FALSE,
   telegram |-> FALSE]

\* The events and the payments worker before any request.
WorkersInit ==
  /\ jobs = << >>
  /\ kv = [k \in KvKeys |-> << >>]
  /\ kvBound \in BOOLEAN
  /\ now = 1
  /\ last = [op |-> "none", code |-> 0, wrote |-> FALSE, effects |-> FALSE,
             replayed |-> FALSE, stored |-> FALSE, repeat |-> FALSE]
  /\ firstOk = [k \in IdemKeys |-> << >>]
  /\ ran = [k \in IdemKeys |-> [e \in EffectKinds |-> 0]]
  /\ gated = [k \in IdemKeys |-> FALSE]
  /\ payKv = << >>
  /\ payments = << >>
  /\ sessions = << [id |-> "S-rec1", session_id |-> "S1",
                    payment_status |-> "pending", payment_ref |-> ""] >>
  /\ memberPackages = << >>
  /\ pointsLedger = << >>
  /\ nextRef = 1
  /\ paySteps = 0
  /\ issued = << >>
  /\ notified = << >>
  /\ inflight = << >>

\* The whole system before any request; the helper runs with the default
\* deposit configuration for a session of 12345 THB.
Init ==
  /\ WorkersInit
  /\ depositPercentEnv = "" /\ roundStepEnv = ""
  /\ sessionAmount = 12345
  /\ depositPayments = << >>
  /\ verifyCalls = << >>
  /\ intentLast = NoIntent

\* ----------------------------------------------------------------- Airtable
\* A lookup that ignores the formula and takes the first record of the table.
findFirstJob(job_id) == IF Len(jobs) > 0 THEN 1 ELSE 0

\* findJobByJobId: the first record whose job_id matches, 0 when none.
findJobByJobId(job_id) ==
  IF \E i \in 1..Len(jobs) : jobs[i].fields.job_id = job_id
  THEN CHOOSE i \in 1..Len(jobs) :
         /\ jobs[i].fields.job_id = job_id
         /\ \A j \in 1..(i - 1) : jobs[j].fields.job_id # job_id
  ELSE 0

IdChars == {Upper[i] : i \in 1..26} \cup {Lower[i] : i \in 1..26}
             \cup {"0","1","2","3","4","5","6","7","8","9","-"}

\* s.replace(/[^A-Z0-9\-]/gi, "")
RECURSIVE StripNonId(_)
StripNonId(s) ==
  IF Len(s) = 0 THEN s
  ELSE (IF Ch(s, 1) \in IdChars THEN Ch(s, 1) ELSE "")
         \o StripNonId(SubSeq(s, 2, Len(s)))

\* s.slice(-10)
Last10(s) == IF Len(s) <= 10 THEN s ELSE SubSeq(s, Len(s) - 9, Len(s))

makeJobId(cid, rand) ==
  "JOB-" \o Last10(StripNonId(IF cid = "" THEN "CID" ELSE cid)) \o "-" \o rand

\* A handler's outcome when it wrote nothing.
Reply(code, body, calls) ==
  [code |-> code, body |-> body, calls |-> calls,
   jobs |-> jobs, kv |-> kv, now |-> now]

\* The number of times call c occurs in the calls cs of one request.
Count(cs, c) == Cardinality({i \in 1..Len(cs) : cs[i] = c})

\* What a handled request did, for the variable last: whether it changed the
\* jobs table, made a side-effect call, answered from the idempotency store,
\* stored an idempotency record, and whether it repeated the request firstOk
\* holds for its key.
Did(op, out, repeat) ==
  [op |-> op, code |-> out.code,
   wrote |-> out.jobs # jobs,
   effects |-> \E i \in 1..Len(out.calls) : out.calls[i] \in SideEffectCalls,
   replayed |-> "idempotent" \in DOMAIN out.body,
   stored |-> out.kv # kv,
   repeat |-> repeat]

\* ------------------------------------------------------------ confirm key
\* The headers of a request to a /v1/ route that the gate reads: the key in
\* X-Confirm-Key, as a bearer token, nowhere, a wrong key in either place,
\* the key in Authorization without the bearer scheme, and a wrong
\* X-Confirm-Key beside the right bearer token.
RequestHeaders ==
  { [x_confirm_key |-> "ck", authorization |-> ""],
    [x_confirm_key |-> "", authorization |-> "Bearer ck"],
    [x_confirm_key |-> "", authorization |-> ""],
    [x_confirm_key |-> "bad", authorization |-> ""],
    [x_confirm_key |-> "", authorization |-> "Bearer bad"],
    [x_confirm_key |-> "", authorization |-> "ck"],
    [x_confirm_key |-> "bad", authorization |-> "Bearer ck"] }

\* A gate that lets every request through.
requireConfirmKeyOpen(h) == 0

\* requireConfirmKey of the events worker: 0 when it returns, else the
\* status of the HttpError it throws.
requireConfirmKey(h) ==
  LET need == Trim(CONFIRM_KEY)
      h1 == Trim(h.x_confirm_key)
      auth == Trim(h.authorization)
      h3 == IF Len(auth) >= 7 /\ SubSeq(ToLower(auth), 1, 7) = "bearer "
            THEN Trim(SubSeq(auth, 8, Len(auth))) ELSE ""
      got == IF h1 # "" THEN h1 ELSE h3
  IN IF need = "" THEN 500
     ELSE IF got = "" \/ got # need THEN 401
     ELSE 0

\* fetch of the events worker on a /v1/ route: the gate runs before the
\* route is looked at; out is what the route's handler answers and does.
fetchV1(h, out) ==
  LET thrown == requireConfirmKey(h)
  IN IF thrown = 0 THEN out
     ELSE Reply(thrown,
                [ok |-> FALSE,
                 error |-> IF thrown = 500 THEN "missing_confirm_key_env"
                           ELSE "confirm_key_required"],
                << >>)

\* requireConfirmKey of the payments worker, on the X-Confirm-Key header.
PayRequireConfirmKey(key) == key # "" /\ CONFIRM_KEY # "" /\ key = CONFIRM_KEY

\* --------------------------------------------------------------- job/create
\* The fields job/create reads off the body.
ParseCreateBody(body, rand) ==
  [cid |-> str(body.cid), session_id |-> str(body.session_id),
   model_code |-> str(body.model_code),
   schedule_start_at |-> str(body.schedule_start_at),
   job_id |-> IF body.job_id # "" THEN str(body.job_id)
              ELSE makeJobId(str(body.cid), rand),
   status |-> IF str(body.status) # "" THEN str(body.status) ELSE "confirmed"]

CreateRequests == {ParseCreateBody(b, r) : b \in CreateBodies, r \in RandIn}

JobCreateOut(p, ext) ==
  LET created_at == now
      fields ==
        [job_id |-> p.job_id, cid |-> p.cid, session_id |-> p.session_id,
         model_code |-> p.model_code, schedule_start_at |-> p.schedule_start_at,
         status |-> p.status,
         last_update_at |-> created_at,
         events_json |-> JSONstringify(
            << [ts |-> created_at, event |-> "created", by |-> "admin",
                note |-> "job created"] >>)]
      id == Len(jobs) + 1
  IN IF p.cid = "" \/ p.session_id = "" \/ p.model_code = ""
          \/ p.schedule_start_at = ""
     THEN Reply(422, [ok |-> FALSE, error |-> "missing_required"], << >>)
     ELSE IF ext.at_write # "ok"
     THEN Reply(503, [ok |-> FALSE, error |-> "airtable_error"], << "airtable_create" >>)
     ELSE [code |-> 200,
           body |-> [ok |-> TRUE, job_id |-> p.job_id, airtable |-> id],
           calls |-> << "airtable_create" >>,
           jobs |-> Append(jobs, [id |-> id, fields |-> fields]),
           kv |-> kv, now |-> now + 1]

\* A request to a /v1/ route that the gate refuses.
Refused(h, op) ==
  /\ requireConfirmKey(h) # 0
  /\ last' = Did(op, fetchV1(h, Reply(0, [ok |-> FALSE], << >>)), FALSE)
  /\ UNCHANGED << intentVars, gated, jobs, kv, kvBound, now, firstOk, ran, payVars,
                  inflight >>

\* The actions JobCreate and JobEvent handle the requests the gate lets
\* through.
JobCreate(p, ext) ==
  /\ now <= MaxNow
  /\ LET out == JobCreateOut(p, ext)
     IN /\ jobs' = out.jobs
        /\ now' = out.now
        /\ last' = Did("job/create", out, FALSE)
        /\ UNCHANGED << intentVars, gated, kv, kvBound, firstOk, ran, payVars, inflight >>

\* ---------------------------------------------------------------- job/event
\* The fields job/event reads off the body.
ParseEventBody(body) ==
  [job_id |-> str(body.job_id),
   event_raw |-> str(body.event),
   event |-> normalizeEventName(str(body.event)),
   idemKey |-> str(body.idempotency_key),
   by |-> IF str(body.by) # "" THEN str(body.by) ELSE "system",
   data |-> body.data,
   statusFromBody |-> str(body.status)]

EventRequests == {ParseEventBody(b) : b \in EventBodies}

\* Sends that ask for the meeting point on every event.
NotifyTypesAlwaysQr(event) == << "telegram_notify", "meeting_point_and_qr" >>

\* The telegram sends of an event, in order: the generic notification, then
\* at most one more.
NotifyTypes(event) ==
  << "telegram_notify" >>
    \o (IF event = "nearby" \/ event = "arrived" THEN << "meeting_point_and_qr" >>
        ELSE << >>)
    \o (IF event = "separated" THEN << "review_tip" >> ELSE << >>)
    \o (IF event = "review" \/ event = "payout" THEN << "payout_notice" >>
        ELSE << >>)

\* A resolution that lets the event name win over the body's status.
ResolveStatusEventFirst(statusFromBody, event, storedStatus) ==
  IF IsDispatchState(event) THEN event
  ELSE IF statusFromBody # "" THEN statusFromBody
  ELSE IF storedStatus # "" THEN storedStatus ELSE "confirmed"

\* The status job/event writes: the body's status, else the event name when
\* it is a dispatch state, else the stored status (or "confirmed").
ResolveStatus(statusFromBody, event, storedStatus) ==
  LET statusAuto ==
        IF IsDispatchState(event) THEN event
        ELSE IF storedStatus # "" THEN storedStatus ELSE "confirmed"
  IN IF statusFromBody # "" THEN statusFromBody ELSE statusAuto

\* A gate keyed on the event's name instead of the resolved status.
GateOnEventName(status, events) ==
  events[Len(events)].event = "work_started" /\ ~hasFinalPaymentConfirmed(events)

\* The hard gate: work_started needs final_payment_confirmed in the events
\* (the one being appended included).
GateBlocks(status, events) ==
  status = "work_started" /\ ~hasFinalPaymentConfirmed(events)

\* A lookup that tests a field the stored record does not have.
PrevIdempotent(raw) ==
  /\ raw # << >>
  /\ JSONparses(raw)
  /\ "idempotent" \in DOMAIN JSONparse(raw)

\* A lookup that takes only a result of job/event for a remembered success.
PrevOkJobResult(raw) ==
  /\ raw # << >>
  /\ JSONparses(raw)
  /\ JSONparse(raw).ok
  /\ "job_id" \in DOMAIN JSONparse(raw).result

\* idemGet(...)?.ok: whether the stored text is a remembered success.
PrevOk(raw) ==
  /\ raw # << >>
  /\ JSONparses(raw)
  /\ JSONparse(raw).ok

\* A replay that hands back the stored record instead of its result.
ReplayWholeRecord(prev) == [ok |-> TRUE, idempotent |-> TRUE, result |-> prev]

\* The body answered from a remembered success prev.
ReplayBody(prev) == [ok |-> TRUE, idempotent |-> TRUE, result |-> prev.result]

\* A remembered record that is not marked a success.
IdemRecordNotOk(result) == [ok |-> FALSE, result |-> result]

\* The value job/event remembers under the idempotency key.
IdemRecord(result) == [ok |-> TRUE, result |-> result]

\* A parse that always takes the fallback.
ParseEventsEmpty(text) == << >>

\* A parse that keeps a marker of the text it could not read.
ParseEventsKeepsDamage(text) ==
  IF JSONparses(text) THEN JSONparse(text)
  ELSE << [ts |-> 0, event |-> "unparsed", event_raw |-> "", by |-> "system",
           data |-> "null"] >>

\* The value of rec.fields.events_json after JSON.parse with its fallback.
ParseEvents(text) == IF JSONparses(text) THEN JSONparse(text) ELSE << >>

\* An assignment of the new event in place of a push.
ReplaceEvents(events, e) == << e >>

\* events.push(e)
PushEvent(events, e) == Append(events, e)

\* The event job/event pushes.
NewEvent(p, ts) ==
  [ts |-> ts, event |-> p.event, event_raw |-> p.event_raw, by |-> p.by,
   data |-> p.data]

\* What job/event does once the PATCH has succeeded: realtime open, the
\* telegram sends, idemPut, the 200.
AfterPatch(p, status, ts, rec, patched, calls, ext) ==
  LET needRt == p.event = "t-15min_open_live_chat"
      rtCalls == IF needRt /\ ext.rt # "unconfigured" THEN << "rt_open" >> ELSE << >>
      rt == IF needRt THEN "rt_room_opened" ELSE "null"
      types == NotifyTypes(p.event)
      throwsAt == {i \in 1..Len(types) : ext.tg[i] = "throws"}
      stop == IF throwsAt = {} THEN Len(types)
              ELSE CHOOSE i \in throwsAt : \A j \in throwsAt : i <= j
      \* sends that reached the telegram worker (a skipped send makes no call)
      tgCalls == [i \in 1..stop |-> IF ext.tg[i] = "skipped" THEN "skipped" ELSE types[i]]
      side_effects ==
        [i \in 1..Len(types) |->
           [type |-> types[i], ok |-> ext.tg[i] = "ok", outcome |-> ext.tg[i]]]
      result ==
        [ok |-> TRUE, job_id |-> p.job_id, status |-> status, updated_at |-> ts,
         airtable |-> rec.id, rt |-> rt, side_effects |-> side_effects]
      put == p.idemKey # "" /\ kvBound
      done(code, body, cs, store) ==
        [code |-> code, body |-> body, calls |-> cs, jobs |-> patched,
         kv |-> store, now |-> now + 1]
  IN IF needRt /\ ext.rt = "unconfigured"
     THEN done(500, [ok |-> FALSE, error |-> "missing_rt_base_url"], calls, kv)
     ELSE IF needRt /\ ext.rt = "failed"
     THEN done(502, [ok |-> FALSE, error |-> "rt_open_failed"], calls \o rtCalls, kv)
     ELSE IF throwsAt # {}
     THEN done(500, [ok |-> FALSE, error |-> "server_error"],
               calls \o rtCalls \o tgCalls, kv)
     ELSE IF put /\ ext.kv_put # "ok"
     THEN done(500, [ok |-> FALSE, error |-> "server_error"],
               calls \o rtCalls \o tgCalls \o << "kv_put" >>, kv)
     ELSE done(200, result,
               calls \o rtCalls \o tgCalls \o (IF put THEN << "kv_put" >> ELSE << >>),
               IF put
               THEN [kv EXCEPT !["idem:" \o p.idemKey] =
                       JSONstringify(IdemRecord(result))]
               ELSE kv)

\* A handler that remembers the 409 of the gate under the idempotency key.
OnRecordRemembersGate(p, i, calls, ext) ==
  LET rec == jobs[i]
      ts == now
      events == PushEvent(ParseEvents(rec.fields.events_json), NewEvent(p, ts))
      status == ResolveStatus(p.statusFromBody, p.event, str(rec.fields.status))
      patched ==
        [jobs EXCEPT ![i].fields =
           [@ EXCEPT !.status = status, !.last_update_at = ts,
                     !.events_json = JSONstringify(events)]]
      refusal == [ok |-> FALSE,
                  error |-> "final_payment_required_before_work_started"]
  IN IF GateBlocks(status, events)
     THEN [Reply(409, refusal, calls) EXCEPT
             !.kv = IF p.idemKey # "" /\ kvBound
                    THEN [kv EXCEPT !["idem:" \o p.idemKey] =
                            JSONstringify(IdemRecord(refusal))]
                    ELSE kv]
     ELSE IF ext.at_write # "ok"
     THEN Reply(503, [ok |-> FALSE, error |-> "airtable_error"],
                calls \o << "airtable_patch" >>)
     ELSE AfterPatch(p, status, ts, rec, patched,
                     calls \o << "airtable_patch" >>, ext)

\* A handler that goes on to the side effects whether or not the PATCH
\* succeeded.
OnRecordEffectsAnyway(p, i, calls, ext) ==
  LET rec == jobs[i]
      ts == now
      events == PushEvent(ParseEvents(rec.fields.events_json), NewEvent(p, ts))
      status == ResolveStatus(p.statusFromBody, p.event, str(rec.fields.status))
      patched ==
        [jobs EXCEPT ![i].fields =
           [@ EXCEPT !.status = status, !.last_update_at = ts,
                     !.events_json = JSONstringify(events)]]
  IN IF GateBlocks(status, events)
     THEN Reply(409, [ok |-> FALSE,
                      error |-> "final_payment_required_before_work_started"],
                calls)
     ELSE AfterPatch(p, status, ts, rec,
                     IF ext.at_write = "ok" THEN patched ELSE jobs,
                     calls \o << "airtable_patch" >>, ext)

\* What job/event does once the job record is found.
OnRecord(p, i, calls, ext) ==
  LET rec == jobs[i]
      ts == now
      events == PushEvent(ParseEvents(rec.fields.events_json), NewEvent(p, ts))
      status == ResolveStatus(p.statusFromBody, p.event, str(rec.fields.status))
      patched ==
        [jobs EXCEPT ![i].fields =
           [@ EXCEPT !.status = status, !.last_update_at = ts,
                     !.events_json = JSONstringify(events)]]
  IN IF rec.fields.events_json = NullText
     THEN \* events.push on a value that is not an array throws a TypeError
          Reply(500, [ok |-> FALSE, error |-> "server_error"], calls)
     ELSE IF GateBlocks(status, events)
     THEN Reply(409, [ok |-> FALSE,
                      error |-> "final_payment_required_before_work_started"],
                calls)
     ELSE IF ext.at_write # "ok"
     THEN Reply(503, [ok |-> FALSE, error |-> "airtable_error"],
                calls \o << "airtable_patch" >>)
     ELSE AfterPatch(p, status, ts, rec, patched,
                     calls \o << "airtable_patch" >>, ext)

JobEventOut(p, ext) ==
  LET lookup == p.idemKey # "" /\ kvBound
      getCalls == IF lookup THEN << "kv_get" >> ELSE << >>
      raw == kv["idem:" \o p.idemKey]
      i == findJobByJobId(p.job_id)
  IN IF p.job_id = "" \/ p.event = ""
     THEN Reply(422, [ok |-> FALSE, error |-> "missing_required"], << >>)
     ELSE IF lookup /\ ext.kv_get # "ok"
     THEN Reply(500, [ok |-> FALSE, error |-> "server_error"], getCalls)
     ELSE IF lookup /\ PrevOk(raw)
     THEN Reply(200, ReplayBody(JSONparse(raw)), getCalls)
     ELSE IF ext.at_find # "ok"
     THEN Reply(503, [ok |-> FALSE, error |-> "airtable_error"],
                getCalls \o << "airtable_find" >>)
     ELSE IF i = 0
     THEN Reply(404, [ok |-> FALSE, error |-> "job_not_found"],
                getCalls \o << "airtable_find" >>)
     ELSE OnRecord(p, i, getCalls \o << "airtable_find" >>, ext)

\* The stored events of record i.
StoredEvents(i) == ParseEvents(jobs[i].fields.events_json)

JobEvent(p, ext) ==
  LET out == JobEventOut(p, ext)
      \* the histories are kept per key while the store is bound
      k == IF kvBound THEN p.idemKey ELSE ""
      did == Did("job/event", out,
                 k # "" /\ firstOk[k] # << >> /\ firstOk[k][1].req = p)
  IN /\ now <= MaxNow
     /\ jobs' = out.jobs
     /\ kv' = out.kv
     /\ now' = out.now
     /\ last' = did
     /\ firstOk' =
          IF k # "" /\ did.code = 200 /\ ~did.replayed /\ firstOk[k] = << >>
          THEN [firstOk EXCEPT ![k] = << [req |-> p, result |-> out.body] >>]
          ELSE firstOk
     /\ ran' =
          IF k = "" THEN ran
          ELSE [ran EXCEPT ![k] =
                  [e \in EffectKinds |->
                     @[e] + (IF e = "append"
                             THEN (IF did.wrote THEN 1 ELSE 0)
                             ELSE Count(out.calls, e))]]
     /\ gated' =
          IF k # "" /\ did.code = 409 THEN [gated EXCEPT ![k] = TRUE] ELSE gated
     /\ UNCHANGED << intentVars, kvBound, payVars, inflight >>

\* --------------------------------------------------------------------- spec
Next ==
  \/ \E p \in CreateRequests, ext \in Outcomes : JobCreate(p, ext)
  \/ \E p \in EventRequests, ext \in Outcomes : JobEvent(p, ext)
  \/ \E h \in RequestHeaders, op \in {"job/create", "job/event"} : Refused(h, op)

Spec == Init /\ [][Next]_vars

\* ------------------------------------------------------------------- claims
\* The record a job/event request names, 0 when none.
Target(p) == findJobByJobId(p.job_id)

\* The status a job/event request asks for: its explicit status, or its event
\* name when that is a dispatch state; "" when it asks for none.
AskedStatus(p) ==
  IF p.statusFromBody # "" THEN p.statusFromBody
  ELSE IF IsDispatchState(p.event) THEN p.event
  ELSE ""

\* The calls that change something outside the handler.
WriteCalls == {"airtable_create", "airtable_patch", "kv_put"} \cup SideEffectCalls

\* The outcome out changed nothing: no record, no idempotency record, no
\* write or side-effect call.
Quiet(out) ==
  /\ out.jobs = jobs
  /\ out.kv = kv
  /\ \A n \in 1..Len(out.calls) : out.calls[n] \notin WriteCalls

\* The request is valid, is not answered from the idempotency store, and its
\* job lookup succeeds and finds a record.
ReachesRecord(p, ext) ==
  /\ p.job_id # "" /\ p.event # ""
  /\ (p.idemKey # "" /\ kvBound) =>
        (ext.kv_get = "ok" /\ ~PrevOk(kv["idem:" \o p.idemKey]))
  /\ ext.at_find = "ok"
  /\ Target(p) # 0

\* C1 as stated: for a job whose stored log holds no final_payment_confirmed,
\* a job/event call asking for work_started is answered 409 and changes
\* nothing (here with every external call succeeding).
C1_GateOnStoredLog ==
  \A p \in EventRequests :
    LET out == JobEventOut(p, AllOk)
    IN (/\ ReachesRecord(p, AllOk)
        /\ ~hasFinalPaymentConfirmed(StoredEvents(Target(p)))
        /\ AskedStatus(p) = "work_started")
         => (out.code = 409 /\ Quiet(out))

\* C1 amended: a job/event call that reaches the gate, asks for work_started
\* and whose event is not itself final_payment_confirmed, for a job whose
\* stored log holds no final_payment_confirmed, is answered 409; the jobs
\* table and the idempotency store are unchanged and no write or side-effect
\* call is made.
C1_GateEnforced ==
  \A p \in EventRequests, ext \in Outcomes :
    LET out == JobEventOut(p, ext)
    IN (/\ ReachesRecord(p, ext)
        /\ ~hasFinalPaymentConfirmed(StoredEvents(Target(p)))
        /\ p.event # "final_payment_confirmed"
        /\ AskedStatus(p) = "work_started")
         => (out.code = 409 /\ Quiet(out))

\* A job/event call was rejected by the gate for a job with no
\* final_payment_confirmed in its log.
C1_Witness ==
  /\ last.op = "job/event" /\ last.code = 409
  /\ ~last.wrote /\ ~last.effects /\ ~last.stored
  /\ \E i \in 1..Len(jobs) : ~hasFinalPaymentConfirmed(StoredEvents(i))

\* C2 as stated: in every reachable state a job whose stored status is
\* work_started has a final_payment_confirmed event in its stored log.
C2_WorkStartedHasFinalPayment ==
  \A i \in 1..Len(jobs) :
    jobs[i].fields.status = "work_started"
      => hasFinalPaymentConfirmed(StoredEvents(i))

\* Whether out is a freshly computed success (not one answered from the
\* idempotency store).
Fresh(out) == out.code = 200 /\ "idempotent" \notin DOMAIN out.body

\* The events of record i in the jobs table js.
EventsIn(js, i) == ParseEvents(js[i].fields.events_json)

\* C3: a job/event call with an idempotency key that is answered with a
\* fresh 200 appends exactly one event and, the store being bound, leaves a
\* remembered success under its key; the same body sent again under the same
\* key changes nothing in the jobs table or the store and makes no write or
\* side-effect call, whatever the external calls do.
C3_IdempotentReplay ==
  /\ \A p \in EventRequests, ext \in Outcomes :
       LET out == JobEventOut(p, ext)
           i == Target(p)
       IN (p.idemKey # "" /\ Fresh(out)) =>
            /\ i # 0
            /\ Len(EventsIn(out.jobs, i)) = Len(StoredEvents(i)) + 1
            /\ kvBound => PrevOk(out.kv["idem:" \o p.idemKey])
  /\ \A k \in IdemKeys :
       (kvBound /\ firstOk[k] # << >>) =>
         \A ext \in Outcomes :
           LET out == JobEventOut(firstOk[k][1].req, ext)
           IN /\ Quiet(out)
              /\ ~Fresh(out)
              /\ ext.kv_get = "ok" => out.code = 200

\* The request that first succeeded under a key was sent again and answered
\* from the idempotency store without a write.
C3_Witness ==
  /\ kvBound
  /\ last.op = "job/event" /\ last.repeat /\ last.replayed /\ last.code = 200
  /\ ~last.wrote /\ ~last.effects /\ ~last.stored

C5_AtMostOncePerKey ==
  kvBound => \A k \in IdemKeys, e \in EffectKinds : ran[k][e] <= 1

\* C6 as stated: when the Record Store and the idempotency store answer, a
\* job/event call that persisted its transition returns 200, whatever the
\* realtime-open call and the notifications do.
C6_SideEffectFailureNeverAborts ==
  \A p \in EventRequests, ext \in Outcomes :
    LET out == JobEventOut(p, ext)
    IN (/\ ext.at_find = "ok" /\ ext.at_write = "ok"
        /\ ext.kv_get = "ok" /\ ext.kv_put = "ok"
        /\ out.jobs # jobs)
         => out.code = 200

\* C7: for a job whose stored log holds a final_payment_confirmed event, a
\* job/event call that reaches the gate and asks for work_started is never
\* answered 409; when the record update succeeds the stored status is
\* work_started, and when no later call throws the answer is 200.
C7_GateSatisfied ==
  \A p \in EventRequests, ext \in Outcomes :
    LET out == JobEventOut(p, ext)
        i == Target(p)
    IN (/\ ReachesRecord(p, ext)
        /\ hasFinalPaymentConfirmed(StoredEvents(i))
        /\ AskedStatus(p) = "work_started")
         => /\ out.code # 409
            /\ ext.at_write = "ok" =>
                 out.jobs[i].fields.status = "work_started"
            /\ (/\ ext.at_write = "ok" /\ ext.rt = "ok" /\ ext.kv_put = "ok"
                /\ \A n \in 1..Len(ext.tg) : ext.tg[n] # "throws")
                 => Fresh(out)

\* After a call appended final_payment_confirmed, a later call was answered
\* 200 and the status is work_started.
C7_Witness ==
  /\ last.op = "job/event" /\ last.code = 200 /\ last.wrote
  /\ \E i \in 1..Len(jobs) :
       LET ev == StoredEvents(i)
       IN /\ Len(ev) >= 3
          /\ ev[1].event = "created"
          /\ ev[Len(ev) - 1].event = "final_payment_confirmed"
          /\ ev[Len(ev)].event = "work_started"
          /\ jobs[i].fields.status = "work_started"

\* C8: whatever a job/create or job/event call does, every record keeps its
\* stored events; a job/event call that changes the jobs table leaves the
\* events of its record equal to the stored ones with the one new event
\* appended, and a fresh 200 is such a call.
C8_AppendOnly ==
  /\ \A p \in EventRequests, ext \in Outcomes :
       LET out == JobEventOut(p, ext)
           i == Target(p)
       IN /\ Len(out.jobs) = Len(jobs)
          /\ Fresh(out) => out.jobs # jobs
          /\ \A j \in 1..Len(jobs) :
               EventsIn(out.jobs, j) =
                 IF out.jobs # jobs /\ j = i
                 THEN Append(StoredEvents(j), NewEvent(p, now))
                 ELSE StoredEvents(j)
  /\ \A p \in CreateRequests, ext \in Outcomes :
       LET out == JobCreateOut(p, ext)
       IN /\ Len(out.jobs) >= Len(jobs)
          /\ \A j \in 1..Len(jobs) : EventsIn(out.jobs, j) = StoredEvents(j)

\* A job/event call appended a second event to a log.
C8_Witness ==
  /\ last.op = "job/event" /\ last.wrote
  /\ \E i \in 1..Len(jobs) :
       /\ Len(StoredEvents(i)) = 3
       /\ StoredEvents(i)[1].event = "created"
       /\ StoredEvents(i)[3].ts = now - 1

\* The position of a dispatch state in the canonical ordering.
StageOf(status) ==
  CHOOSE n \in 1..Len(DISPATCH_STATES) : DISPATCH_STATES[n] = status

\* C9 as stated: a job/event call with no explicit status never moves the
\* stored status to an earlier stage of the canonical ordering (checked for
\* jobs that have final_payment_confirmed in their log whenever their status
\* is work_started).
C9_NoRegressionWithoutOverride ==
  \A p \in EventRequests, ext \in Outcomes :
    LET out == JobEventOut(p, ext)
        i == Target(p)
    IN (/\ ReachesRecord(p, ext)
        /\ p.statusFromBody = ""
        /\ out.jobs # jobs
        /\ jobs[i].fields.status = "work_started" =>
             hasFinalPaymentConfirmed(StoredEvents(i))
        /\ IsDispatchState(jobs[i].fields.status)
        /\ IsDispatchState(out.jobs[i].fields.status))
         => StageOf(out.jobs[i].fields.status) >= StageOf(jobs[i].fields.status)

\* C10: the status a job/event call writes (and returns) is the body's
\* status when that is not empty, else the normalized event name when it is
\* one of the 14 dispatch states, else the status stored before the call.
C10_StatusResolution ==
  /\ Len(DISPATCH_STATES) = 14
  /\ \A p \in EventRequests, ext \in Outcomes :
       LET out == JobEventOut(p, ext)
           i == Target(p)
           expected ==
             IF p.statusFromBody # "" THEN p.statusFromBody
             ELSE IF \E n \in 1..14 : DISPATCH_STATES[n] = p.event THEN p.event
             ELSE jobs[i].fields.status
       IN /\ out.jobs # jobs => out.jobs[i].fields.status = expected
          /\ Fresh(out) => out.body.status = expected

\* Each way of resolving the status has been taken: a log holds an event
\* written with the body's status, one with its own name, and one that kept
\* the stored status.
C10_Witness ==
  /\ last.op = "job/event" /\ last.wrote
  /\ \E i \in 1..Len(jobs) :
       LET ev == StoredEvents(i)
       IN /\ Len(ev) >= 2
          /\ ev[Len(ev)].event = "t-15min_open_live_chat"
          /\ jobs[i].fields.status = "final_payment_confirmed"

\* Events for the job J1 with each notification rule and with none: the
\* events the rules name, the live-chat opening, a state no rule names, and
\* a name that is no state.
C11_Events ==
  {"Nearby", "Arrived", "Separated", "Review", "Payout", "T-15 Live Chat",
   "Closed", "hello there"}

C11_Requests ==
  {ParseEventBody([job_id |-> "J1", event |-> e, status |-> "",
                   by |-> "", data |-> "null", idempotency_key |-> ""]) :
     e \in C11_Events}

\* The notifications an event name calls for.
C11_Notifications(event) ==
  {"telegram_notify"}
    \cup (IF event \in {"nearby", "arrived"} THEN {"meeting_point_and_qr"} ELSE {})
    \cup (IF event = "separated" THEN {"review_tip"} ELSE {})
    \cup (IF event \in {"review", "payout"} THEN {"payout_notice"} ELSE {})

\* C11: a job/event call answered with a fresh 200 reports, once each, exactly
\* the notifications its normalized event name calls for (the generic one
\* always, meeting point + QR iff nearby or arrived, review and tip iff
\* separated, payout notice iff review or payout), and has made the realtime
\* room-open call iff the event is t-15min_open_live_chat; no job/event call,
\* whatever its outcome, makes a side-effect call outside that set.
C11_SideEffectsByEvent ==
  \A p \in C11_Requests, ext \in Outcomes :
    LET out == JobEventOut(p, ext)
        t15 == p.event = "t-15min_open_live_chat"
        allowed == C11_Notifications(p.event)
                     \cup (IF t15 THEN {"rt_open"} ELSE {})
    IN /\ \A n \in 1..Len(out.calls) :
            out.calls[n] \in SideEffectCalls => out.calls[n] \in allowed
       /\ Fresh(out) =>
            LET se == out.body.side_effects
            IN /\ {se[n].type : n \in 1..Len(se)} = C11_Notifications(p.event)
               /\ Len(se) = Cardinality(C11_Notifications(p.event))
               /\ (Count(out.calls, "rt_open") = 1) <=> t15
               /\ (Count(out.calls, "rt_open") = 0) <=> ~t15
               /\ (out.body.rt # "null") <=> t15

\* A nearby event was just accepted for a job (two notifications, no
\* realtime call).
C11_Witness ==
  /\ last.op = "job/event" /\ last.code = 200 /\ last.wrote /\ last.effects
  /\ \E i \in 1..Len(jobs) :
       LET ev == StoredEvents(i)
       IN ev[Len(ev)].event = "nearby" /\ ev[Len(ev)].ts = now - 1

\* No record of the jobs table carries the job_id the request names.
C12_Unknown(p) == \A i \in 1..Len(jobs) : jobs[i].fields.job_id # p.job_id

\* C12 as stated: a job/event call with an empty job_id or an empty
\* normalized event is answered 422 and one naming a job_id no record has is
\* answered 404, both without a write, a side effect or an idempotency record
\* (here with every external call succeeding).
C12_InvalidOrUnknownRejected ==
  \A p \in EventRequests :
    LET out == JobEventOut(p, AllOk)
    IN /\ (p.job_id = "" \/ p.event = "") => (out.code = 422 /\ Quiet(out))
       /\ (p.job_id # "" /\ p.event # "" /\ C12_Unknown(p))
            => (out.code = 404 /\ Quiet(out))

\* C12 amended: a job/event call with an empty job_id or an empty normalized
\* event is answered 422; one naming a job_id no record has writes nothing,
\* and is answered 404 when no success is remembered under its idempotency
\* key and the store and table lookups answer; in both cases no record is
\* written, no side effect triggered and no idempotency record stored.
C12_RejectedWithoutEffect ==
  \A p \in EventRequests, ext \in Outcomes :
    LET out == JobEventOut(p, ext)
        remembered == p.idemKey # "" /\ kvBound
                        /\ PrevOk(kv["idem:" \o p.idemKey])
    IN /\ (p.job_id = "" \/ p.event = "") => (out.code = 422 /\ Quiet(out))
       /\ (p.job_id # "" /\ p.event # "" /\ C12_Unknown(p))
            => /\ Quiet(out)
               /\ (~remembered /\ ext.kv_get = "ok" /\ ext.at_find = "ok")
                    => out.code = 404

\* A call naming an unknown job was answered 404 while another job exists.
C12_Witness ==
  /\ last.op = "job/event" /\ last.code = 404
  /\ ~last.wrote /\ ~last.effects /\ ~last.stored
  /\ Len(jobs) > 0

\* Event names as clients send them: mixed case, outer and inner whitespace,
\* the T-minus-15 spellings with and without a live-chat marker, the Thai
\* spellings, and the canonical tokens themselves.
C13_Inputs ==
  {"Arrived", " Work  Started", "T-15 Live Chat", "t15 LIVECHAT",
   "Open T 15 live", "t-15", "Live Chat", "T  15 live", "en\troute \n",
   "T15 " \o ThaiChatTho, "t-15 " \o ThaiChatTo, ThaiChatTho,
   "t-15min_open_live_chat", "work_started", "", "   ", "a  b \t c"}

\* The T-minus-15 and live-chat markers of a lower-cased / raw name.
C13_HasT15(lower) == \E m \in {"t-15", "t15", "t 15"} : Includes(lower, m)
C13_HasLiveChat(lower, raw) ==
  \/ \E m \in {"live chat", "livechat", "live"} : Includes(lower, m)
  \/ \E m \in {ThaiChatTho, ThaiChatTo} : Includes(raw, m)

\* C13: normalizeEventName maps a name holding both a T-minus-15 marker and
\* a live-chat marker to t-15min_open_live_chat and every other name to its
\* trimmed, lower-cased form with each whitespace run replaced by one
\* underscore ("Arrived" gives "arrived"); normalizing a result again
\* returns it unchanged. Checked on a set of names and on every event name
\* job/event has stored.
C13_NormalizeEventName ==
  /\ normalizeEventName("Arrived") = "arrived"
  /\ \A x \in C13_Inputs \cup {b.event : b \in EventBodies} :
       LET y == normalizeEventName(x)
           lower == ToLower(Trim(x))
       IN /\ (C13_HasT15(lower) /\ C13_HasLiveChat(lower, Trim(x)))
               => y = "t-15min_open_live_chat"
          /\ ~(C13_HasT15(lower) /\ C13_HasLiveChat(lower, Trim(x)))
               => /\ Len(y) = Len(ReplaceWs(lower))
                  /\ \A n \in 1..Len(y) : Ch(y, n) \notin Whitespace
                  /\ \A n \in 1..Len(y) : Ch(y, n) = LowerCh(Ch(y, n))
                  /\ y = ReplaceWs(lower)
          /\ normalizeEventName(y) = y
  /\ \A i \in 1..Len(jobs) :
       LET ev == StoredEvents(i)
       IN \A n \in 1..Len(ev) :
            "event_raw" \in DOMAIN ev[n] =>
              LET lower == ToLower(Trim(ev[n].event_raw))
              IN /\ ev[n].event =
                      IF C13_HasT15(lower)
                           /\ C13_HasLiveChat(lower, Trim(ev[n].event_raw))
                      THEN "t-15min_open_live_chat"
                      ELSE ReplaceWs(lower)
                 /\ normalizeEventName(ev[n].event) = ev[n].event

\* Events were stored under normalized names: a live-chat opening and a
\* name whose inner whitespace was collapsed.
C13_Witness ==
  \E i \in 1..Len(jobs) :
    LET ev == StoredEvents(i)
    IN /\ Len(ev) >= 3
       /\ \E n \in 2..Len(ev) :
            ev[n].event_raw = "T-15 Live Chat"
              /\ ev[n].event = "t-15min_open_live_chat"
       /\ \E n \in 2..Len(ev) :
            ev[n].event_raw = "Nearby" /\ ev[n].event = "nearby"

\* ================================================================ payments
\* ------------------------------------------------------------------ bounds
\* Payments requests are handled while fewer than MaxPaySteps of them have
\* been answered 200; at most MaxCallers /v1/pay/verify calls overlap.
MaxPaySteps == 3
MaxCallers == 2

\* env.POINTS_RATE || 100
POINTS_RATE == 100

\* ---------------------------------------------------------- stage helpers
normalizeStage(stage) == ToLower(Trim(stage))
isMembershipStage(stage) == normalizeStage(stage) = "membership"
isServiceStage(stage) ==
  LET s == normalizeStage(stage)
  IN s = "deposit" \/ s = "final" \/ s = "tips"

\* The longest prefix of s with no character of stops.
RECURSIVE TakeWhileNot(_, _)
TakeWhileNot(s, stops) ==
  IF Len(s) = 0 THEN s
  ELSE IF Ch(s, 1) \in stops THEN ""
  ELSE Ch(s, 1) \o TakeWhileNot(SubSeq(s, 2, Len(s)), stops)

\* String(s).match(/key([^stops]+)/i): the capture of the leftmost match,
\* "" when there is none. key is given in lower case.
RegexCapture(s, key, stops) ==
  LET lower == ToLower(s)
      hits == {i \in 1..(Len(s) - Len(key)) :
                 /\ SubSeq(lower, i, i + Len(key) - 1) = key
                 /\ Ch(s, i + Len(key)) \notin stops}
  IN IF hits = {} THEN ""
     ELSE LET i == CHOOSE h \in hits : \A j \in hits : h <= j
          IN TakeWhileNot(SubSeq(s, i + Len(key), Len(s)), stops)

\* /session_id=([^; \n]+)/i
extractSessionIdFromNotes(notes) ==
  RegexCapture(notes, "session_id=", {";", " ", "\n"})

\* /stage=([^;\n]+)/i
stageFromNotesOf(notes) == RegexCapture(notes, "stage=", {";", "\n"})

\* The notes airtableCreatePaymentIntent writes; the clock reading at the
\* end is written "t".
IntentNotes(session_id, payment_stage) ==
  "session_id=" \o session_id \o "; stage=" \o payment_stage
    \o "; created_at=t"

\* The text handleNotify appends to the notes.
PaidNotesExtra == "; provider_txn_id=; notified_at=t"

\* A rate applied to the amount rounded up.
calcPointsCeil(amountThb, pointsRate) ==
  IF amountThb <= 0 THEN 0
  ELSE (amountThb + pointsRate - 1) \div (IF pointsRate = 0 THEN 100 ELSE pointsRate)

\* Math.floor(amt / Number(pointsRate || 100)); a rate that is not given
\* is 0.
calcPoints(amountThb, pointsRate) ==
  IF amountThb <= 0 THEN 0
  ELSE amountThb \div (IF pointsRate = 0 THEN 100 ELSE pointsRate)

\* uuidv4(): the n-th draw; draws do not repeat.
uuidv4(n) == "R" \o ToString(n)

\* ------------------------------------------------------------ KV and tables
\* A get that never finds a value.
KvMiss(store, key) == ""

\* KV.get: the value under key, "" (null) when none was put.
KvGet(store, key) == IF key \in DOMAIN store THEN store[key] ELSE ""

\* A put that stores nothing.
KvDrop(store, key, value) == store

\* KV.put
KvPut(store, key, value) ==
  [k \in DOMAIN store \cup {key} |-> IF k = key THEN value ELSE store[k]]

\* The position in table of the record with this id, 0 when none.
RecordAt(table, id) ==
  IF \E i \in 1..Len(table) : table[i].id = id
  THEN CHOOSE i \in 1..Len(table) : table[i].id = id
  ELSE 0

\* airtableFindOneByFormula on {payment_ref}="ref": the first matching
\* entry's position, 0 when none.
FindByPaymentRef(table, ref) ==
  IF \E i \in 1..Len(table) : table[i].payment_ref = ref
  THEN CHOOSE i \in 1..Len(table) :
         /\ table[i].payment_ref = ref
         /\ \A j \in 1..(i - 1) : table[j].payment_ref # ref
  ELSE 0

\* ----------------------------------------------------------- /v1/pay/verify
\* Bodies of /v1/pay/verify: a membership and a deposit intent for the
\* session S1, and two that fail validation.
VerifyBodies ==
  { [session_id |-> " S1", payment_stage |-> " Membership ", amount |-> 250,
     package_code |-> "PKG"],
    [session_id |-> "S1", payment_stage |-> "deposit", amount |-> 250,
     package_code |-> ""],
    [session_id |-> "S1", payment_stage |-> "membership", amount |-> 250,
     package_code |-> " "],
    [session_id |-> "", payment_stage |-> "deposit", amount |-> 250,
     package_code |-> ""] }

\* The fields handleVerify reads off the body.
ParseVerifyBody(body) ==
  [session_id |-> Trim(body.session_id),
   payment_stage |-> normalizeStage(body.payment_stage),
   amount |-> body.amount,
   package_code |-> Trim(body.package_code)]

VerifyRequests == {ParseVerifyBody(b) : b \in VerifyBodies}

\* Outcomes of the external calls of one /v1/pay/verify:
\*   kv: every KV call resolves, the first get rejects, or the put of the
\*       payrec mapping rejects
\*   at_create: the Airtable create of the payment record answers 2xx or not
VerifyOutcomes ==
  { [kv |-> "ok", at_create |-> "ok"], [kv |-> "ok", at_create |-> "fail"],
    [kv |-> "get_throws", at_create |-> "ok"],
    [kv |-> "put_throws", at_create |-> "ok"] }

\* The body handleVerify fails validation with, "" when it is valid.
VerifyInvalid(p) ==
  IF p.session_id = "" THEN "missing_session_id"
  ELSE IF p.payment_stage = "" THEN "missing_payment_stage"
  ELSE IF isMembershipStage(p.payment_stage) /\ p.package_code = ""
  THEN "missing_package_code"
  ELSE ""

intentKey(p) == "intent:" \o p.session_id \o ":" \o p.payment_stage

airtableCreatePaymentIntent(table, p, transaction_ref) ==
  [id |-> "P" \o ToString(Len(table) + 1),
   fields |-> [payment_ref |-> transaction_ref, amount |-> p.amount,
               payment_status |-> "Pending", payment_method |-> "promptpay",
               package_code |-> p.package_code,
               payment_intent_status |-> "pending",
               notes |-> IntentNotes(p.session_id, p.payment_stage)]]

\* VerifyEnsureRecord without the lookup of the payrec mapping: a payment
\* record is created on every call.
VerifyEnsureRecordAnew(p, transaction_ref, idempotent, store, ext) ==
  LET payrec_key == "payrec:" \o transaction_ref
      rec == airtableCreatePaymentIntent(payments, p, transaction_ref)
  IN IF ext.at_create # "ok"
     THEN [code |-> 200,
           body |-> [ok |-> TRUE, transaction_ref |-> transaction_ref,
                     idempotent |-> idempotent,
                     warning |-> "airtable_create_failed"],
           payKv |-> store, payments |-> payments]
     ELSE IF ext.kv = "put_throws"
     THEN [code |-> 500, body |-> [ok |-> FALSE],
           payKv |-> store, payments |-> Append(payments, rec)]
     ELSE [code |-> 200,
           body |-> [ok |-> TRUE, transaction_ref |-> transaction_ref,
                     idempotent |-> idempotent, intent_key |-> intentKey(p),
                     payment_stage |-> p.payment_stage,
                     package_code |-> p.package_code,
                     session_id |-> p.session_id,
                     payment_record_id |-> rec.id],
           payKv |-> KvPut(store, payrec_key, rec.id),
           payments |-> Append(payments, rec)]

\* handleVerify from its second step on: ensure there is a payment record
\* for the reference and answer. store is the KV after the first step.
VerifyEnsureRecord(p, transaction_ref, idempotent, store, ext) ==
  LET payrec_key == "payrec:" \o transaction_ref
      payment_record_id == KvGet(store, payrec_key)
      rec == airtableCreatePaymentIntent(payments, p, transaction_ref)
      answer(id) ==
        [ok |-> TRUE, transaction_ref |-> transaction_ref,
         idempotent |-> idempotent, intent_key |-> intentKey(p),
         payment_stage |-> p.payment_stage, package_code |-> p.package_code,
         session_id |-> p.session_id, payment_record_id |-> id]
  IN IF payment_record_id # ""
     THEN [code |-> 200, body |-> answer(payment_record_id),
           payKv |-> store, payments |-> payments]
     ELSE IF ext.at_create # "ok"
     THEN [code |-> 200,
           body |-> [ok |-> TRUE, transaction_ref |-> transaction_ref,
                     idempotent |-> idempotent,
                     warning |-> "airtable_create_failed"],
           payKv |-> store, payments |-> payments]
     ELSE IF ext.kv = "put_throws"
     THEN [code |-> 500, body |-> [ok |-> FALSE],
           payKv |-> store, payments |-> Append(payments, rec)]
     ELSE [code |-> 200, body |-> answer(rec.id),
           payKv |-> KvPut(store, payrec_key, rec.id),
           payments |-> Append(payments, rec)]

\* The whole of handleVerify, its awaits run without another request between
\* them. A rejected KV call is not caught: the request fails (500).
handleVerify(p, ext) ==
  LET found == KvGet(payKv, intentKey(p))
      idempotent == found # ""
      transaction_ref == IF idempotent THEN found ELSE uuidv4(nextRef)
      store == IF idempotent THEN payKv
               ELSE KvPut(payKv, intentKey(p), transaction_ref)
      quiet(code, body) ==
        [code |-> code, body |-> body, payKv |-> payKv,
         payments |-> payments, nextRef |-> nextRef]
  IN IF VerifyInvalid(p) # ""
     THEN quiet(400, [ok |-> FALSE, error |-> VerifyInvalid(p)])
     ELSE IF ext.kv = "get_throws"
     THEN quiet(500, [ok |-> FALSE])
     ELSE [nextRef |-> IF idempotent THEN nextRef ELSE nextRef + 1]
            @@ VerifyEnsureRecord(p, transaction_ref, idempotent, store, ext)

\* For the history: the payment record mapped from the reference is marked
\* paid.
RefPaid(ref) ==
  LET id == KvGet(payKv, "payrec:" \o ref)
      ri == RecordAt(payments, id)
  IN id # "" /\ ri # 0 /\ ToLower(payments[ri].fields.payment_status) = "paid"

Verify(p, ext) ==
  LET out == handleVerify(p, ext)
  IN /\ paySteps < MaxPaySteps
     /\ paySteps' = IF out.code = 200 \/ out.payments # payments
                    THEN paySteps + 1 ELSE paySteps
     /\ payKv' = out.payKv
     /\ payments' = out.payments
     /\ nextRef' = out.nextRef
     /\ issued' =
          IF out.code = 200
          THEN Append(issued, [key |-> << p.session_id, p.payment_stage >>,
                               found |-> KvGet(payKv, intentKey(p)) # "",
                               transaction_ref |-> out.body.transaction_ref,
                               idempotent |-> out.body.idempotent,
                               warning |-> "warning" \in DOMAIN out.body,
                               created |-> out.payments # payments,
                               paid |-> RefPaid(out.body.transaction_ref)])
          ELSE issued
     /\ UNCHANGED << intentVars, gated, sessions, memberPackages, pointsLedger, notified,
                     evVars, inflight >>

\* ------------------------------------------------------ /v1/payments/notify
\* Bodies of /v1/payments/notify (confirm_key: the X-Confirm-Key header): for
\* the first reference issued, with everything read off the payment record,
\* without a member e-mail, with a payment_stage of its own, and with a
\* stage of its own; for a reference no payment record is mapped to; a
\* membership payment below the points rate; and three that are refused.
NotifyBodies ==
  { [confirm_key |-> "ck", transaction_ref |-> "R1", payment_stage |-> "",
     stage |-> "", session_id |-> "", package_code |-> "",
     member_email |-> " a@x.io", amount |-> 0],
    [confirm_key |-> "ck", transaction_ref |-> "R1", payment_stage |-> "",
     stage |-> "", session_id |-> "", package_code |-> "",
     member_email |-> "", amount |-> 0],
    [confirm_key |-> "ck", transaction_ref |-> "R1", payment_stage |-> " Deposit",
     stage |-> "", session_id |-> "S1", package_code |-> "",
     member_email |-> "a@x.io", amount |-> 0],
    [confirm_key |-> "ck", transaction_ref |-> "R1", payment_stage |-> "",
     stage |-> "deposit", session_id |-> "S1", package_code |-> "",
     member_email |-> "a@x.io", amount |-> 0],
    [confirm_key |-> "ck", transaction_ref |-> " R9", payment_stage |-> "Membership",
     stage |-> "", session_id |-> "", package_code |-> "PKG",
     member_email |-> "a@x.io", amount |-> 250],
    [confirm_key |-> "ck", transaction_ref |-> "R8", payment_stage |-> "membership",
     stage |-> "", session_id |-> "", package_code |-> "PKG",
     member_email |-> "", amount |-> 99],
    [confirm_key |-> "bad", transaction_ref |-> "R1", payment_stage |-> "",
     stage |-> "", session_id |-> "", package_code |-> "",
     member_email |-> "a@x.io", amount |-> 0],
    [confirm_key |-> "", transaction_ref |-> "R1", payment_stage |-> "",
     stage |-> "", session_id |-> "", package_code |-> "",
     member_email |-> "a@x.io", amount |-> 0],
    [confirm_key |-> "ck", transaction_ref |-> " ", payment_stage |-> "membership",
     stage |-> "", session_id |-> "", package_code |-> "PKG",
     member_email |-> "a@x.io", amount |-> 250] }

\* The fields handleNotify reads off the request before it reads the
\* payment record.
ParseNotifyBody(body) ==
  [auth |-> PayRequireConfirmKey(body.confirm_key),
   transaction_ref |-> Trim(body.transaction_ref),
   payment_stage |-> normalizeStage(body.payment_stage),
   stage |-> body.stage,
   session_id |-> body.session_id,
   package_code |-> body.package_code,
   member_email |-> Trim(body.member_email),
   amount |-> body.amount]

NotifyRequests == {ParseNotifyBody(b) : b \in NotifyBodies}

\* Outcomes of the external calls of one /v1/payments/notify: the KV get;
\* the read and the update of the payment record; the lookup and the update
\* of the session; the lookup in and the create on each ledger; the package
\* lookup. All succeed, or exactly one does not.
NotifyAllOk ==
  [kv |-> "ok", at_read |-> "ok", at_update |-> "ok", ses_find |-> "ok",
   ses_update |-> "ok", mp_find |-> "ok", pkg |-> "ok", mp_create |-> "ok",
   pt_find |-> "ok", pt_create |-> "ok"]

NotifyOutcomes ==
  {NotifyAllOk}
    \cup {[NotifyAllOk EXCEPT !.kv = "throws"]}
    \cup {[NotifyAllOk EXCEPT ![f] = "fail"] :
            f \in {"at_read", "at_update", "ses_find", "ses_update", "mp_find",
                   "pkg", "mp_create", "pt_find", "pt_create"}}

\* The packages table: code -> duration_days.
getPackageByCode(package_code, ext) ==
  IF ext.pkg = "ok" /\ package_code = "PKG" THEN [duration_days |-> 30]
  ELSE [duration_days |-> 0]

\* A ledger result that is no result (null in the response).
NoLedger == [ok |-> FALSE, created |-> FALSE, reason |-> "null"]

\* createMemberPackageLedgerIfEligible: the result and the ledger after it.
\* A failed lookup is swallowed and the create is still tried.
createMemberPackageLedgerIfEligible(table, member_email, package_code, amount_thb, payment_ref, ext) ==
  LET existing == IF ext.mp_find = "ok" THEN FindByPaymentRef(table, payment_ref)
                  ELSE 0
      pkg == getPackageByCode(package_code, ext)
      fields ==
        [member_email |-> member_email, package_code |-> package_code,
         amount |-> amount_thb, status |-> "active",
         payment_ref |-> payment_ref, duration_days |-> pkg.duration_days]
      res(ok, created, reason) ==
        [ok |-> ok, created |-> created, reason |-> reason]
  IN IF member_email = "" \/ package_code = "" \/ payment_ref = ""
     THEN [result |-> res(TRUE, FALSE, "missing_required"), table |-> table]
     ELSE IF existing # 0
     THEN [result |-> res(TRUE, FALSE, "already_exists"), table |-> table]
     ELSE IF ext.mp_create # "ok"
     THEN [result |-> res(FALSE, FALSE, "error"), table |-> table]
     ELSE [result |-> res(TRUE, TRUE, "created"), table |-> Append(table, fields)]

\* awardPointsIfEligible: the result and the ledger after it. payment_ref is
\* unique in points_ledger: a create for a reference the ledger holds is
\* refused as a duplicate.
awardPointsIfEligible(table, member_email, payment_ref, session_id, amount_thb, ext) ==
  LET points == calcPoints(amount_thb, POINTS_RATE)
      existing == IF ext.pt_find = "ok" THEN FindByPaymentRef(table, payment_ref)
                  ELSE 0
      fields ==
        [payment_ref |-> payment_ref, amount_thb |-> amount_thb,
         points |-> points, member_email |-> member_email,
         session_id |-> session_id]
      res(ok, awarded, reason) ==
        [ok |-> ok, created |-> awarded, reason |-> reason]
  IN IF payment_ref = ""
     THEN [result |-> res(FALSE, FALSE, "missing_payment_ref"), table |-> table]
     ELSE IF points <= 0
     THEN [result |-> res(TRUE, FALSE, "points=0"), table |-> table]
     ELSE IF existing # 0
     THEN [result |-> res(TRUE, FALSE, "already_awarded"), table |-> table]
     ELSE IF FindByPaymentRef(table, payment_ref) # 0
     THEN [result |-> res(TRUE, FALSE, "unique_conflict"), table |-> table]
     ELSE IF ext.pt_create # "ok"
     THEN [result |-> res(FALSE, FALSE, "error"), table |-> table]
     ELSE [result |-> res(TRUE, TRUE, "awarded"), table |-> Append(table, fields)]

\* airtableFindSessionRecordId: the position of the session's record, 0
\* when no candidate formula finds one (a failed query is skipped).
airtableFindSessionRecordId(session_id, ext) ==
  IF ext.ses_find = "ok"
       /\ \E i \in 1..Len(sessions) : sessions[i].session_id = session_id
  THEN CHOOSE i \in 1..Len(sessions) :
         /\ sessions[i].session_id = session_id
         /\ \A j \in 1..(i - 1) : sessions[j].session_id # session_id
  ELSE 0

\* The Sessions payment_status a service stage writes.
SessionStatusOf(stage, old) ==
  IF stage = "deposit" THEN "deposit_paid"
  ELSE IF stage = "final" THEN "paid"
  ELSE IF stage = "tips" THEN "tips_paid"
  ELSE old

\* A paid check that compares the status as stored.
IsPaidExact(currentStatus) == currentStatus = "paid"

\* String(currentStatus || "").toLowerCase() === "paid"
IsPaid(currentStatus) == ToLower(currentStatus) = "paid"

\* A membership test that also takes the service stages.
TakesLedger(stage) == isMembershipStage(stage) \/ isServiceStage(stage)

\* The stage test of the ledger branch.
LedgerStage(stage) == isMembershipStage(stage)

\* An already-paid answer that claims a ledger write.
AlreadyPaidWritten(b, payment_record_id) ==
  [ok |-> TRUE, transaction_ref |-> b.transaction_ref,
   already_paid |-> TRUE, ledger_written |-> TRUE,
   payment_record_id |-> payment_record_id]

\* The answer of the idempotent paid check.
AlreadyPaid(b, payment_record_id) ==
  [ok |-> TRUE, transaction_ref |-> b.transaction_ref,
   already_paid |-> TRUE, ledger_written |-> FALSE,
   payment_record_id |-> payment_record_id]

\* What handleNotify leaves unchanged when it answers early.
NotifyQuiet(code, body, did) ==
  [code |-> code, body |-> body, payments |-> payments, sessions |-> sessions,
   memberPackages |-> memberPackages, pointsLedger |-> pointsLedger,
   did |-> did]

\* What a notify call did, for the history: the stage it resolved, whether
\* the payment record was read, whether the call answered already_paid,
\* whether it marked the record paid, whether it updated a session, and its
\* two ledger results.
NotifyDid(b, stage, resolved, already, marked, session_updated, mp, pt) ==
  [transaction_ref |-> b.transaction_ref, stage |-> stage,
   resolved |-> resolved, already_paid |-> already, marked |-> marked,
   session_updated |-> session_updated, mp |-> mp.reason, pt |-> pt.reason]

\* handleNotify once the paid check has passed and the payment record (when
\* one is mapped) has been marked paid: the session branch, the ledger
\* branch and the answer. paid is the payments table after the update.
NotifyFanOut(b, payment_record_id, resolved, stage, session_id, package_code, amount_thb, paid, ext) ==
  LET si == IF session_id # "" /\ isServiceStage(stage)
            THEN airtableFindSessionRecordId(session_id, ext) ELSE 0
      session_updated == si # 0 /\ ext.ses_update = "ok"
      sessionsAfter ==
        IF session_updated
        THEN [sessions EXCEPT ![si] =
                [@ EXCEPT !.payment_ref = b.transaction_ref,
                          !.payment_status = SessionStatusOf(stage, @)]]
        ELSE sessions
      mp == IF LedgerStage(stage)
            THEN createMemberPackageLedgerIfEligible(memberPackages,
                   b.member_email, package_code, amount_thb,
                   b.transaction_ref, ext)
            ELSE [result |-> NoLedger, table |-> memberPackages]
      pt == IF LedgerStage(stage)
            THEN awardPointsIfEligible(pointsLedger, b.member_email,
                   b.transaction_ref, session_id, amount_thb, ext)
            ELSE [result |-> NoLedger, table |-> pointsLedger]
  IN [code |-> 200,
      body |-> [ok |-> TRUE, transaction_ref |-> b.transaction_ref,
                stage |-> stage, payment_record_id |-> payment_record_id,
                session_id |-> session_id, package_code |-> package_code,
                session_record_id |-> IF si = 0 THEN "" ELSE sessions[si].id,
                session_updated |-> session_updated,
                membership_ledger |-> mp.result, points_ledger |-> pt.result],
      payments |-> paid, sessions |-> sessionsAfter,
      memberPackages |-> mp.table, pointsLedger |-> pt.table,
      did |-> << NotifyDid(b, stage, resolved, FALSE, paid # payments,
                           session_updated, mp.result, pt.result) >>]

\* A resolution that lets the stage recorded in the notes win.
ResolveStageNotesFirst(payment_stage, stageFromNotes, bodyStage) ==
  normalizeStage(IF stageFromNotes # "" THEN stageFromNotes
                 ELSE IF payment_stage # "" THEN payment_stage
                 ELSE bodyStage)

\* stage = normalizeStage(payment_stage || stageFromNotes || (body.stage || ""))
ResolveStage(payment_stage, stageFromNotes, bodyStage) ==
  normalizeStage(IF payment_stage # "" THEN payment_stage
                 ELSE IF stageFromNotes # "" THEN stageFromNotes
                 ELSE bodyStage)

\* What handleNotify reads before the paid check: the payment record mapped
\* from the reference (a failed read leaves none) and the stage, session,
\* package and amount resolved from the request and the record.
NotifyResolve(b, ext) ==
  LET payment_record_id == KvGet(payKv, "payrec:" \o b.transaction_ref)
      ri == IF payment_record_id # "" /\ ext.at_read = "ok"
            THEN RecordAt(payments, payment_record_id) ELSE 0
      resolved == ri # 0
      pkgCodeFromPayment == IF resolved THEN payments[ri].fields.package_code ELSE ""
      notesFromPayment == IF resolved THEN payments[ri].fields.notes ELSE ""
      amountFromPayment == IF resolved THEN payments[ri].fields.amount ELSE 0
      stageFromNotes == stageFromNotesOf(notesFromPayment)
  IN [payment_record_id |-> payment_record_id,
      resolved |-> resolved,
      currentStatus |-> IF resolved THEN payments[ri].fields.payment_status
                        ELSE "",
      notesFromPayment |-> notesFromPayment,
      stage |-> ResolveStage(b.payment_stage, stageFromNotes, b.stage),
      session_id |-> Trim(IF b.session_id # "" THEN b.session_id
                          ELSE extractSessionIdFromNotes(notesFromPayment)),
      package_code |-> Trim(IF b.package_code # "" THEN b.package_code
                            ELSE pkgCodeFromPayment),
      amount_thb |-> IF b.amount # 0 THEN b.amount ELSE amountFromPayment]

\* airtableUpdate of the payment record: the payments table with the record
\* marked paid and the notes read earlier extended.
MarkPaid(payment_record_id, notesFromPayment) ==
  LET ui == RecordAt(payments, payment_record_id)
  IN IF payment_record_id # "" /\ ui # 0
     THEN [payments EXCEPT ![ui].fields =
             [@ EXCEPT !.payment_status = "Paid",
                       !.payment_intent_status = "paid",
                       !.notes = notesFromPayment \o PaidNotesExtra]]
     ELSE payments

\* The whole of handleNotify. did is << >> when the call is refused or
\* fails, else the one entry the history gets.
handleNotify(b, ext) ==
  LET r == NotifyResolve(b, ext)
  IN IF ~b.auth
     THEN NotifyQuiet(401, [ok |-> FALSE, error |-> "unauthorized"], << >>)
     ELSE IF b.transaction_ref = ""
     THEN NotifyQuiet(400, [ok |-> FALSE, error |-> "missing_transaction_ref"],
                      << >>)
     ELSE IF ext.kv # "ok"
     THEN NotifyQuiet(500, [ok |-> FALSE], << >>)
     ELSE IF IsPaid(r.currentStatus)
     THEN NotifyQuiet(200, AlreadyPaid(b, r.payment_record_id),
            << NotifyDid(b, r.stage, r.resolved, TRUE, FALSE, FALSE,
                         NoLedger, NoLedger) >>)
     ELSE IF r.payment_record_id # "" /\ ext.at_update # "ok"
     THEN NotifyQuiet(200,
            [ok |-> TRUE, transaction_ref |-> b.transaction_ref,
             warning |-> "airtable_payment_update_failed",
             ledger_written |-> FALSE],
            << NotifyDid(b, r.stage, r.resolved, FALSE, FALSE, FALSE,
                         NoLedger, NoLedger) >>)
     ELSE NotifyFanOut(b, r.payment_record_id, r.resolved, r.stage,
                       r.session_id, r.package_code, r.amount_thb,
                       MarkPaid(r.payment_record_id, r.notesFromPayment), ext)

Notify(b, ext) ==
  LET out == handleNotify(b, ext)
  IN /\ paySteps < MaxPaySteps
     /\ paySteps' = IF out.code = 200 THEN paySteps + 1 ELSE paySteps
     /\ payments' = out.payments
     /\ sessions' = out.sessions
     /\ memberPackages' = out.memberPackages
     /\ pointsLedger' = out.pointsLedger
     /\ notified' = notified \o out.did
     /\ UNCHANGED << intentVars, gated, payKv, nextRef, issued, evVars, inflight >>

PayNext ==
  \/ \E p \in VerifyRequests, ext \in VerifyOutcomes : Verify(p, ext)
  \/ \E b \in NotifyRequests, ext \in NotifyOutcomes : Notify(b, ext)

\* The payments worker does not read the events worker's KV binding.
PayInit == Init /\ kvBound

PaySpec == PayInit /\ [][PayNext]_vars

\* ---------------------------------------------------------- payments claims
\* The positions of the ledger entries written for a reference.
EntriesFor(table, ref) == {i \in 1..Len(table) : table[i].payment_ref = ref}

\* The positions in the history of the notify calls for a reference.
CallsFor(ref) ==
  {i \in 1..Len(notified) : notified[i].transaction_ref = ref}

\* Whether a notify call of the history wrote to a table.
WroteSomething(e) ==
  e.marked \/ e.session_updated \/ e.mp = "created" \/ e.pt = "awarded"

\* C14: of two /v1/pay/verify calls answered one after the other for the
\* same (session_id, payment_stage), the second returns the transaction_ref
\* of the first and reports idempotent = true; a call that finds no stored
\* intent reports idempotent = false and leaves its reference stored under
\* the pair, and one that finds an intent reports idempotent = true.
C14_IntentStability ==
  /\ \A i, j \in 1..Len(issued) :
       (i < j /\ issued[i].key = issued[j].key) =>
         /\ issued[j].transaction_ref = issued[i].transaction_ref
         /\ issued[j].idempotent
  /\ \A i \in 1..Len(issued) :
       /\ issued[i].idempotent = issued[i].found
       /\ LET key == "intent:" \o issued[i].key[1] \o ":" \o issued[i].key[2]
          IN key \in DOMAIN payKv /\ payKv[key] = issued[i].transaction_ref

\* Two verify calls for one pair were answered: the first with
\* idempotent = false, the second with idempotent = true.
C14_Witness ==
  \E i, j \in 1..Len(issued) :
    /\ i < j /\ issued[i].key = issued[j].key
    /\ ~issued[i].idempotent /\ issued[j].idempotent
    /\ issued[i].transaction_ref = issued[j].transaction_ref

\* The verify calls answered for a pair after the i-th of the history.
LaterFor(i) ==
  {j \in (i + 1)..Len(issued) : issued[j].key = issued[i].key}

C17_AlreadyPaidNoOp ==
  \A b \in NotifyRequests, ext \in NotifyOutcomes :
    LET id == KvGet(payKv, "payrec:" \o b.transaction_ref)
        ri == RecordAt(payments, id)
    IN (/\ b.auth /\ b.transaction_ref # ""
        /\ ext.kv = "ok" /\ ext.at_read = "ok"
        /\ id # "" /\ ri # 0
        /\ payments[ri].fields.payment_status \in {"Paid", "paid"})
         => LET out == handleNotify(b, ext)
            IN /\ out.code = 200
               /\ out.body.already_paid /\ ~out.body.ledger_written
               /\ out.payments = payments /\ out.sessions = sessions
               /\ out.memberPackages = memberPackages
               /\ out.pointsLedger = pointsLedger

\* A notify call read a paid record and answered already_paid.
C17_Witness ==
  /\ Len(notified) >= 2
  /\ notified[Len(notified)].resolved /\ notified[Len(notified)].already_paid
  /\ \E i \in 1..Len(payments) : payments[i].fields.payment_status = "Paid"

\* C18: a notify call whose stage is deposit, final or tips creates no
\* Member-Package and no Points entry, and one whose stage is membership
\* updates no session; no call does both; the ledgers hold nothing but what
\* membership calls created, and the sessions table differs from its first
\* state only after a service-stage call updated it.
C18_StageExclusive ==
  /\ \A i \in 1..Len(notified) :
       LET e == notified[i]
       IN /\ e.stage \in {"deposit", "final", "tips"}
               => (e.mp = "null" /\ e.pt = "null")
          /\ e.stage = "membership" => ~e.session_updated
          /\ ~(e.session_updated /\ (e.mp = "created" \/ e.pt = "awarded"))
          /\ e.session_updated => e.stage \in {"deposit", "final", "tips"}
          /\ (e.mp = "created" \/ e.pt = "awarded") => e.stage = "membership"
  /\ Len(memberPackages)
       = Cardinality({i \in 1..Len(notified) : notified[i].mp = "created"})
  /\ Len(pointsLedger)
       = Cardinality({i \in 1..Len(notified) : notified[i].pt = "awarded"})
  /\ (\E n \in 1..Len(sessions) : sessions[n].payment_status # "pending")
       => \E i \in 1..Len(notified) : notified[i].session_updated

\* A deposit call updated the session and wrote no ledger entry, and a
\* membership call wrote ledger entries and updated no session.
C18_Witness ==
  /\ \E i \in 1..Len(notified) :
       /\ notified[i].stage = "deposit" /\ notified[i].session_updated
       /\ notified[i].mp = "null"
  /\ \E i \in 1..Len(notified) :
       /\ notified[i].stage = "membership" /\ notified[i].mp = "created"
       /\ ~notified[i].session_updated
  /\ sessions[1].payment_status = "deposit_paid"

\* C22 as stated: a notify call whose write that marks the payment record
\* paid fails reports an error to the caller (a status other than 2xx, or
\* ok = false), updates no session, writes to neither ledger and leaves the
\* record pending.
C22_UpdateFailureAborts ==
  \A b \in NotifyRequests :
    LET ext == [NotifyAllOk EXCEPT !.at_update = "fail"]
        key == "payrec:" \o b.transaction_ref
        id == IF key \in DOMAIN payKv THEN payKv[key] ELSE ""
        ri == RecordAt(payments, id)
    IN (/\ b.auth /\ b.transaction_ref # ""
        /\ id # "" /\ ri # 0
        /\ payments[ri].fields.payment_status = "Pending")
         => LET out == handleNotify(b, ext)
            IN /\ out.sessions = sessions
               /\ out.memberPackages = memberPackages
               /\ out.pointsLedger = pointsLedger
               /\ out.payments = payments
               /\ out.code >= 400 \/ ~out.body.ok

\* Amounts and rates the points computation is checked on (a rate of 0 is a
\* rate that is not given).
C26_Amounts == {-5, 0, 1, 99, 100, 101, 199, 250, 1000}
C26_Rates == {0, 100, 1000}

\* C26: calcPoints is floor(amount / rate), with the rate 100 when none is
\* given, and 0 for a non-positive amount; awardPointsIfEligible creates no
\* Points entry when that is 0 and otherwise one entry carrying exactly
\* those points; every Points entry in the ledger carries
\* floor(amount_thb / POINTS_RATE) >= 1 points, and a membership-stage call
\* whose amount earns no points reports points=0.
C26_PointsFloor ==
  /\ \A amt \in C26_Amounts, rate \in C26_Rates :
       LET pts == calcPoints(amt, rate)
           r == IF rate = 0 THEN 100 ELSE rate
       IN IF amt <= 0 THEN pts = 0
          ELSE pts * r <= amt /\ amt < (pts + 1) * r
  /\ \A amt \in C26_Amounts :
       LET out == awardPointsIfEligible(pointsLedger, "a@x.io", "R7", "S1",
                                        amt, NotifyAllOk)
       IN IF amt < POINTS_RATE
          THEN /\ out.table = pointsLedger
               /\ ~out.result.created /\ out.result.reason = "points=0"
          ELSE /\ out.result.created
               /\ Len(out.table) = Len(pointsLedger) + 1
               /\ LET e == out.table[Len(out.table)]
                  IN /\ e.payment_ref = "R7" /\ e.amount_thb = amt
                     /\ e.points * POINTS_RATE <= amt
                     /\ amt < (e.points + 1) * POINTS_RATE
  /\ \A i \in 1..Len(pointsLedger) :
       LET e == pointsLedger[i]
       IN /\ e.points >= 1
          /\ e.points * POINTS_RATE <= e.amount_thb
          /\ e.amount_thb < (e.points + 1) * POINTS_RATE
  /\ \A i \in 1..Len(notified) :
       notified[i].pt = "points=0" =>
         /\ notified[i].stage = "membership"
         /\ EntriesFor(pointsLedger, notified[i].transaction_ref) = {}

\* A membership-stage call for 250 THB was awarded 2 points, and one for
\* 99 THB reported points=0 and has no Points entry.
C26_Witness ==
  /\ \E i \in 1..Len(notified) :
       /\ notified[i].stage = "membership" /\ notified[i].pt = "awarded"
       /\ \E n \in EntriesFor(pointsLedger, notified[i].transaction_ref) :
            pointsLedger[n].amount_thb = 250 /\ pointsLedger[n].points = 2
  /\ \E i \in 1..Len(notified) :
       /\ notified[i].stage = "membership" /\ notified[i].pt = "points=0"
       /\ EntriesFor(pointsLedger, notified[i].transaction_ref) = {}

\* C19 as stated: after any sequence of notify calls each reference has at
\* most one Member-Package entry and at most one Points entry.
C19_AtMostOneLedgerEntry ==
  \A i \in 1..Len(notified) :
    /\ Cardinality(EntriesFor(memberPackages, notified[i].transaction_ref)) <= 1
    /\ Cardinality(EntriesFor(pointsLedger, notified[i].transaction_ref)) <= 1

\* C20 as stated: once a membership-stage notify call has marked a payment
\* record paid and a second notify call for its reference has completed,
\* the reference has a Member-Package entry and, when its amount earns
\* points, a Points entry.
C20_FanOutCompletes ==
  \A r \in 1..Len(payments) :
    LET f == payments[r].fields
    IN (/\ f.payment_status = "Paid"
        /\ \E i \in CallsFor(f.payment_ref) :
             /\ notified[i].marked /\ notified[i].stage = "membership"
             /\ \E j \in CallsFor(f.payment_ref) : j > i)
         => /\ EntriesFor(memberPackages, f.payment_ref) # {}
            /\ f.amount >= POINTS_RATE
                 => EntriesFor(pointsLedger, f.payment_ref) # {}

\* ------------------------------------------ overlapping /v1/pay/verify calls
\* handleVerify awaits the KV get, then the KV put, then the calls that
\* ensure the payment record; another request can run at each await. A call
\* is at "get" (its get of the intent is pending), at "put" (it found no
\* intent; its put is pending), at "record" (it is to ensure the payment
\* record and answer) or "done". The awaits of the last part are taken
\* together: they do not touch the intent mapping.
Callers == 1..MaxCallers

RaceBegin(c, p) ==
  /\ c \notin DOMAIN inflight
  /\ inflight' =
       [k \in DOMAIN inflight \cup {c} |->
          IF k # c THEN inflight[k]
          ELSE IF VerifyInvalid(p) # ""
          THEN [pc |-> "done", p |-> p, transaction_ref |-> "",
                idempotent |-> FALSE, code |-> 400]
          ELSE [pc |-> "get", p |-> p, transaction_ref |-> "",
                idempotent |-> TRUE, code |-> 0]]
  /\ UNCHANGED << intentVars, gated, payVars, evVars >>

\* let transaction_ref = await env.PAY_SESSIONS_KV.get(intent_key)
RaceGet(c) ==
  /\ c \in DOMAIN inflight /\ inflight[c].pc = "get"
  /\ LET found == KvGet(payKv, intentKey(inflight[c].p))
     IN inflight' =
          [inflight EXCEPT ![c] =
             [@ EXCEPT !.transaction_ref = found,
                       !.pc = IF found = "" THEN "put" ELSE "record"]]
  /\ UNCHANGED << intentVars, gated, payVars, evVars >>

\* transaction_ref = uuidv4(); await env.PAY_SESSIONS_KV.put(intent_key, ...)
RacePut(c) ==
  /\ c \in DOMAIN inflight /\ inflight[c].pc = "put"
  /\ LET transaction_ref == uuidv4(nextRef)
     IN /\ payKv' = KvPut(payKv, intentKey(inflight[c].p), transaction_ref)
        /\ inflight' =
             [inflight EXCEPT ![c] =
                [@ EXCEPT !.transaction_ref = transaction_ref,
                          !.idempotent = FALSE, !.pc = "record"]]
  /\ nextRef' = nextRef + 1
  /\ UNCHANGED << intentVars, gated, payments, sessions, memberPackages, pointsLedger, paySteps,
                  issued, notified, evVars >>

RaceRecord(c, ext) ==
  /\ c \in DOMAIN inflight /\ inflight[c].pc = "record"
  /\ LET me == inflight[c]
         out == VerifyEnsureRecord(me.p, me.transaction_ref, me.idempotent,
                                   payKv, ext)
     IN /\ payKv' = out.payKv
        /\ payments' = out.payments
        /\ inflight' = [inflight EXCEPT ![c] =
                          [@ EXCEPT !.pc = "done", !.code = out.code]]
  /\ UNCHANGED << intentVars, gated, sessions, memberPackages, pointsLedger, nextRef, paySteps,
                  issued, notified, evVars >>

RaceNext ==
  \/ \E c \in Callers, p \in VerifyRequests : RaceBegin(c, p)
  \/ \E c \in Callers : RaceGet(c)
  \/ \E c \in Callers : RacePut(c)
  \/ \E c \in Callers, ext \in VerifyOutcomes : RaceRecord(c, ext)

PayRaceSpec == PayInit /\ [][RaceNext]_vars

\* The callers that were answered 200 for a pair.
Answered(key) ==
  {c \in DOMAIN inflight :
     /\ inflight[c].pc = "done" /\ inflight[c].code = 200
     /\ << inflight[c].p.session_id, inflight[c].p.payment_stage >> = key}

\* C15 as stated: also when /v1/pay/verify calls for one pair overlap, every
\* caller answered for the pair was given the same transaction_ref and the
\* stored intent mapping equals it.
C15_OneRefPerPair ==
  \A c \in DOMAIN inflight :
    LET me == inflight[c]
        key == << me.p.session_id, me.p.payment_stage >>
    IN (me.pc = "done" /\ me.code = 200) =>
         /\ \A d \in Answered(key) :
              inflight[d].transaction_ref = me.transaction_ref
         /\ KvGet(payKv, intentKey(me.p)) = me.transaction_ref

\* ------------------------------------- overlapping /v1/payments/notify calls
\* handleNotify awaits, in this order: the read of the payment record, the
\* update that marks it paid, the session lookup and update, the lookup in
\* member_packages, the create on it, the lookup in points_ledger and the
\* create on it. Another request can run at each await. Every external call
\* succeeds here: the interleaving is the only choice. A call that has read
\* the record is at "mark", "session", "mp_find", "mp_create", "pt_find",
\* "pt_create" or "done".
\* The notify requests that overlap: the authorised ones for the first
\* reference issued.
RaceNotifyRequests ==
  {b \in NotifyRequests : b.auth /\ b.transaction_ref = "R1"}

\* requireConfirmKey, readJson and the transaction_ref check (none reads
\* stored state), then the KV get of the payrec mapping, airtableGetRecord
\* and the idempotent paid check.
NotifyRead(c, b) ==
  /\ c \notin DOMAIN inflight
  /\ LET r == NotifyResolve(b, NotifyAllOk)
         go == b.auth /\ b.transaction_ref # "" /\ ~IsPaid(r.currentStatus)
     IN inflight' =
          [k \in DOMAIN inflight \cup {c} |->
             IF k # c THEN inflight[k]
             ELSE [pc |-> IF go THEN "mark" ELSE "done",
                   b |-> b, seen |-> r,
                   sawPending |-> go /\ r.resolved,
                   mp |-> "null", pt |-> "null"]]
  /\ UNCHANGED << intentVars, gated, payVars, evVars >>

\* airtableUpdate of the payment record (when one is mapped).
NotifyMark(c) ==
  /\ c \in DOMAIN inflight /\ inflight[c].pc = "mark"
  /\ payments' = MarkPaid(inflight[c].seen.payment_record_id,
                          inflight[c].seen.notesFromPayment)
  /\ inflight' = [inflight EXCEPT ![c].pc = "session"]
  /\ UNCHANGED << intentVars, gated, payKv, sessions, memberPackages, pointsLedger, nextRef,
                  paySteps, issued, notified, evVars >>

\* The service-stage branch: airtableFindSessionRecordId, airtableUpdate.
NotifySession(c) ==
  /\ c \in DOMAIN inflight /\ inflight[c].pc = "session"
  /\ LET me == inflight[c]
         out == NotifyFanOut(me.b, me.seen.payment_record_id, me.seen.resolved,
                             me.seen.stage, me.seen.session_id,
                             me.seen.package_code, me.seen.amount_thb,
                             payments, NotifyAllOk)
     IN /\ sessions' = out.sessions
        /\ inflight' =
             [inflight EXCEPT ![c].pc =
                IF LedgerStage(me.seen.stage) THEN "mp_find" ELSE "done"]
  /\ UNCHANGED << intentVars, gated, payKv, payments, memberPackages, pointsLedger, nextRef,
                  paySteps, issued, notified, evVars >>

\* createMemberPackageLedgerIfEligible up to its lookup: the early returns
\* and the answer of airtableFindOneByFormula.
NotifyMpFind(c) ==
  /\ c \in DOMAIN inflight /\ inflight[c].pc = "mp_find"
  /\ LET me == inflight[c]
         r == createMemberPackageLedgerIfEligible(memberPackages,
                me.b.member_email, me.seen.package_code, me.seen.amount_thb,
                me.b.transaction_ref, NotifyAllOk)
     IN inflight' =
          [inflight EXCEPT ![c] =
             IF r.result.created
             THEN [@ EXCEPT !.pc = "mp_create"]
             ELSE [@ EXCEPT !.mp = r.result.reason, !.pc = "pt_find"]]
  /\ UNCHANGED << intentVars, gated, payVars, evVars >>

\* createMemberPackageLedgerIfEligible after a lookup that found nothing:
\* getPackageByCode and airtableCreate.
NotifyMpCreate(c) ==
  /\ c \in DOMAIN inflight /\ inflight[c].pc = "mp_create"
  /\ LET me == inflight[c]
         r == createMemberPackageLedgerIfEligible(memberPackages,
                me.b.member_email, me.seen.package_code, me.seen.amount_thb,
                me.b.transaction_ref, [NotifyAllOk EXCEPT !.mp_find = "fail"])
     IN /\ memberPackages' = r.table
        /\ inflight' = [inflight EXCEPT ![c] =
                          [@ EXCEPT !.mp = r.result.reason, !.pc = "pt_find"]]
  /\ UNCHANGED << intentVars, gated, payKv, payments, sessions, pointsLedger, nextRef, paySteps,
                  issued, notified, evVars >>

\* awardPointsIfEligible up to its lookup.
NotifyPtFind(c) ==
  /\ c \in DOMAIN inflight /\ inflight[c].pc = "pt_find"
  /\ LET me == inflight[c]
         r == awardPointsIfEligible(pointsLedger, me.b.member_email,
                me.b.transaction_ref, me.seen.session_id, me.seen.amount_thb,
                NotifyAllOk)
     IN inflight' =
          [inflight EXCEPT ![c] =
             IF r.result.created
             THEN [@ EXCEPT !.pc = "pt_create"]
             ELSE [@ EXCEPT !.pt = r.result.reason, !.pc = "done"]]
  /\ UNCHANGED << intentVars, gated, payVars, evVars >>

\* awardPointsIfEligible after a lookup that found nothing: airtableCreate,
\* refused as a duplicate when the ledger holds the reference by now.
NotifyPtCreate(c) ==
  /\ c \in DOMAIN inflight /\ inflight[c].pc = "pt_create"
  /\ LET me == inflight[c]
         r == awardPointsIfEligible(pointsLedger, me.b.member_email,
                me.b.transaction_ref, me.seen.session_id, me.seen.amount_thb,
                [NotifyAllOk EXCEPT !.pt_find = "fail"])
     IN /\ pointsLedger' = r.table
        /\ inflight' = [inflight EXCEPT ![c] =
                          [@ EXCEPT !.pt = r.result.reason, !.pc = "done"]]
  /\ UNCHANGED << intentVars, gated, payKv, payments, sessions, memberPackages, nextRef, paySteps,
                  issued, notified, evVars >>

NotifyRaceNext ==
  \/ \E p \in VerifyRequests : Verify(p, [kv |-> "ok", at_create |-> "ok"])
  \/ \E c \in Callers, b \in RaceNotifyRequests : NotifyRead(c, b)
  \/ \E c \in Callers : NotifyMark(c)
  \/ \E c \in Callers : NotifySession(c)
  \/ \E c \in Callers : NotifyMpFind(c)
  \/ \E c \in Callers : NotifyMpCreate(c)
  \/ \E c \in Callers : NotifyPtFind(c)
  \/ \E c \in Callers : NotifyPtCreate(c)

NotifyRaceSpec == PayInit /\ [][NotifyRaceNext]_vars

\* C23 as stated: when two notify calls for one reference both read the
\* payment record as pending and both complete, the reference has at most
\* one Member-Package entry and at most one Points entry.
C23_AtMostOnceUnderOverlap ==
  \A c, d \in DOMAIN inflight :
    (/\ c # d
     /\ inflight[c].b.transaction_ref = inflight[d].b.transaction_ref
     /\ inflight[c].sawPending /\ inflight[d].sawPending
     /\ inflight[c].pc = "done" /\ inflight[d].pc = "done")
      => LET ref == inflight[c].b.transaction_ref
         IN /\ Cardinality(EntriesFor(memberPackages, ref)) <= 1
            /\ Cardinality(EntriesFor(pointsLedger, ref)) <= 1

\* ------------------------------------------- overlapping /v1/job/event calls
\* job/event awaits, in this order: idemGet, findJobByJobId, the PATCH of
\* the whole log, the realtime open and the telegram sends, idemPut. Another
\* request can run at each await. Every external call succeeds here: the
\* interleaving is the only choice. A call that has passed the idempotency
\* lookup is at "find", then "patch" (it holds the record it read), then
\* "finish" (its PATCH is done), then "done".
\* The job/create requests that precede them: the one that creates the job
\* J1 with the default status.
RaceCreateRequests ==
  {p \in CreateRequests :
     p.job_id = "J1" /\ p.cid # "" /\ p.status = "confirmed"}

\* The job/event requests that overlap: those for the job J1 with no status
\* that carry the idempotency key k1, and the work_started one.
RaceEventRequests ==
  {p \in EventRequests :
     /\ p.job_id = "J1" /\ p.event # "" /\ p.statusFromBody = ""
     /\ p.idemKey # "" \/ p.event = "work_started"}

\* safeJson, the required fields, idemGet. Callers are numbered in the order
\* their requests arrive.
EventGet(c, p) ==
  /\ c \notin DOMAIN inflight
  /\ \A d \in Callers : d < c => d \in DOMAIN inflight
  /\ LET lookup == p.idemKey # "" /\ kvBound
         raw == kv["idem:" \o p.idemKey]
         replay == lookup /\ PrevOk(raw)
         me == [pc |-> IF p.job_id = "" \/ p.event = "" \/ replay THEN "done"
                       ELSE "find",
                p |-> p,
                code |-> IF p.job_id = "" \/ p.event = "" THEN 422
                         ELSE IF replay THEN 200 ELSE 0,
                replayed |-> replay,
                sawStored |-> lookup /\ raw # << >>,
                rec |-> << >>, ts |-> 0, status |-> "", read |-> << >>,
                wrote |-> << >>, appended |-> FALSE, calls |-> << >>]
     IN inflight' = [k \in DOMAIN inflight \cup {c} |->
                       IF k = c THEN me ELSE inflight[k]]
  /\ UNCHANGED << intentVars, gated, payVars, evVars >>

\* findJobByJobId, nowIso(), JSON.parse of the stored log.
EventFind(c) ==
  /\ c \in DOMAIN inflight /\ inflight[c].pc = "find"
  /\ LET i == findJobByJobId(inflight[c].p.job_id)
     IN inflight' =
          [inflight EXCEPT ![c] =
             IF i = 0 THEN [@ EXCEPT !.pc = "done", !.code = 404]
             ELSE [@ EXCEPT !.pc = "patch", !.rec = jobs[i], !.ts = now,
                            !.read = ParseEvents(jobs[i].fields.events_json)]]
  /\ UNCHANGED << intentVars, gated, payVars, evVars >>

\* events.push, the status resolution, the hard gate and the PATCH of
\* status, last_update_at and the whole events_json.
EventPatch(c) ==
  /\ c \in DOMAIN inflight /\ inflight[c].pc = "patch"
  /\ LET me == inflight[c]
         events == PushEvent(me.read, NewEvent(me.p, me.ts))
         status == ResolveStatus(me.p.statusFromBody, me.p.event,
                                 str(me.rec.fields.status))
     IN IF GateBlocks(status, events)
        THEN /\ inflight' = [inflight EXCEPT ![c] =
                               [@ EXCEPT !.pc = "done", !.code = 409]]
             /\ UNCHANGED << intentVars, gated, jobs, now >>
        ELSE /\ jobs' = [jobs EXCEPT ![me.rec.id].fields =
                           [@ EXCEPT !.status = status,
                                     !.last_update_at = me.ts,
                                     !.events_json = JSONstringify(events)]]
             /\ now' = now + 1
             /\ inflight' = [inflight EXCEPT ![c] =
                               [@ EXCEPT !.pc = "finish", !.status = status,
                                         !.wrote = events, !.appended = TRUE]]
  /\ UNCHANGED << intentVars, gated, kv, kvBound, last, firstOk, ran, payVars >>

\* The realtime open, the telegram sends, idemPut and the 200.
EventFinish(c) ==
  /\ c \in DOMAIN inflight /\ inflight[c].pc = "finish"
  /\ LET me == inflight[c]
         out == AfterPatch(me.p, me.status, me.ts, me.rec, jobs, << >>, AllOk)
     IN /\ kv' = out.kv
        /\ inflight' = [inflight EXCEPT ![c] =
                          [@ EXCEPT !.pc = "done", !.code = out.code,
                                    !.calls = out.calls]]
  /\ UNCHANGED << intentVars, gated, jobs, kvBound, now, last, firstOk, ran, payVars >>

EventRaceNext ==
  \/ \E p \in RaceCreateRequests : JobCreate(p, AllOk)
  \/ \E c \in Callers, p \in RaceEventRequests : EventGet(c, p)
  \/ \E c \in Callers : EventFind(c)
  \/ \E c \in Callers : EventPatch(c)
  \/ \E c \in Callers : EventFinish(c)

\* The idempotency store is bound.
EventRaceInit == Init /\ kvBound

EventRaceSpec == EventRaceInit /\ [][EventRaceNext]_vars

\* The callers answered 200 without a replay.
RanFresh ==
  {c \in DOMAIN inflight :
     /\ inflight[c].pc = "done" /\ inflight[c].code = 200
     /\ ~inflight[c].replayed}

\* C24: overlapping job/event calls are not serialised on the idempotency
\* key. A call is answered from the store only when its lookup found a
\* record; every call whose lookup found none and that is answered 200 has
\* appended its event and made its telegram send (and the realtime open for
\* the live-chat event), whatever other calls with the same key did, and has
\* left a remembered success under its key.
C24_ConcurrentFirstRequestsBothRun ==
  \A c \in DOMAIN inflight :
    LET me == inflight[c]
    IN /\ me.replayed => (me.sawStored /\ ~me.appended /\ me.calls = << >>)
       /\ (me.pc = "done" /\ me.code = 200 /\ ~me.replayed) =>
            /\ me.appended
            /\ Count(me.calls, "telegram_notify") = 1
            /\ Count(me.calls, "rt_open")
                 = (IF me.p.event = "t-15min_open_live_chat" THEN 1 ELSE 0)
            /\ me.p.idemKey # "" =>
                 LET raw == kv["idem:" \o me.p.idemKey]
                 IN raw # << >> /\ raw[1] = "json" /\ raw[2].ok

\* Two calls with the same idempotency key both found no record, both
\* appended an event and both made their sends: the log of the job holds the
\* two events.
C24_Witness ==
  \E c, d \in RanFresh :
    /\ c # d
    /\ inflight[c].p.idemKey # ""
    /\ inflight[c].p.idemKey = inflight[d].p.idemKey
    /\ ~inflight[c].sawStored /\ ~inflight[d].sawStored
    /\ inflight[c].appended /\ inflight[d].appended
    /\ Count(inflight[c].calls, "telegram_notify") = 1
    /\ Count(inflight[d].calls, "telegram_notify") = 1
    /\ inflight[c].rec.id = inflight[d].rec.id
    /\ Len(StoredEvents(inflight[c].rec.id)) = 3

\* The callers whose PATCH of record i was made.
Patchers(i) ==
  {c \in DOMAIN inflight : inflight[c].appended /\ inflight[c].rec.id = i}

\* C25: the PATCH writes the log the call read with its own event added,
\* not the stored log with the event added: the stored log of a job is the
\* log one of its patching calls wrote (the created log when there was
\* none), so the events PATCHed by other calls in between are not in it.
C25_LastPatchWins ==
  /\ \A c \in DOMAIN inflight :
       LET me == inflight[c]
       IN me.appended =>
            /\ me.wrote = Append(me.rec.fields.events_json[2],
                                 NewEvent(me.p, me.ts))
            /\ me.wrote[Len(me.wrote)].event = me.p.event
  /\ \A i \in 1..Len(jobs) :
       IF Patchers(i) = {}
       THEN Len(StoredEvents(i)) = 1 /\ StoredEvents(i)[1].event = "created"
       ELSE \E c \in Patchers(i) : StoredEvents(i) = inflight[c].wrote

\* Two calls read the same log of a job; the call that appended
\* final_payment_confirmed was answered 200 and its event is not in the
\* stored log; a work_started request for the job is answered 409.
C25_Witness ==
  \E c, d \in RanFresh :
    /\ c # d
    /\ inflight[c].rec = inflight[d].rec
    /\ inflight[c].p.event = "final_payment_confirmed"
    /\ inflight[c].appended /\ inflight[d].appended
    /\ LET i == inflight[c].rec.id
       IN /\ \A n \in 1..Len(StoredEvents(i)) :
               StoredEvents(i)[n].event # "final_payment_confirmed"
          /\ StoredEvents(i) = inflight[d].wrote
          /\ \E p \in EventRequests :
               /\ p.event = "work_started" /\ p.statusFromBody = ""
               /\ findJobByJobId(p.job_id) = i
               /\ JobEventOut(p, AllOk).code = 409

\* =========================================== session payment-intent helper
\* POST /v1/sessions/payment/intent (src/unnamed/part_000): computes the
\* amount of a deposit, final or tips payment of a session and asks the
\* payments worker for the intent (specification IntentSpec).
\* ------------------------------------------------------------------ bounds
\* The helper sends at most MaxIntents verify calls; at most MaxDeposits
\* deposit payments of the session are paid.
MaxIntents == 1
MaxDeposits == 2

\* Number(text) on the configuration texts.
NumberOf ==
  [t \in {"0", "30", "50", "100", "500"} |->
     CASE t = "0" -> 0 [] t = "30" -> 30 [] t = "50" -> 50
       [] t = "100" -> 100 [] t = "500" -> 500]

\* Number(env.X || default)
EnvNumber(value, default) == NumberOf[IF value = "" THEN default ELSE value]

\* Math.ceil(a / b) for b > 0. Amounts are whole numbers and a quotient is
\* kept as a fraction, so the ceiling is the exact one.
CeilDiv(a, b) == 0 - ((0 - a) \div b)

\* A rounding down to the step.
floorToStep(n, step) ==
  LET s == IF step > 0 THEN step ELSE 1
  IN (n[1] \div (n[2] * s)) * s

\* ceilToStep: n is the fraction n[1] / n[2].
ceilToStep(n, step) ==
  LET s == IF step > 0 THEN step ELSE 1
  IN CeilDiv(n[1], n[2] * s) * s

\* raw = (amountThb * percent) / 100; ceilToStep(raw, roundStep)
computeDepositAmount(amountThb, percent, roundStep) ==
  ceilToStep(<< amountThb * percent, 100 >>, roundStep)

RECURSIVE SumOf(_)
SumOf(amounts) ==
  IF amounts = << >> THEN 0 ELSE amounts[1] + SumOf(Tail(amounts))

\* airtableSumPaidForStage(sessionId, "deposit"): the sum over the paid
\* deposit payments of the session, 0 when the query fails or it is another
\* session.
airtableSumPaidForStage(sessionId, ext) ==
  IF ext.sum = "ok" /\ sessionId = "S1" THEN SumOf(depositPayments) ELSE 0

\* A deposit that is always charged in full.
DepositDueFull(depositExpected, depositPaidTotal) == depositExpected

\* amountToPay = Math.max(0, depositExpected - depositPaidTotal);
\* if (amountToPay <= 0) amountToPay = depositExpected
DepositDue(depositExpected, depositPaidTotal) ==
  LET amountToPay == IF depositExpected - depositPaidTotal > 0
                     THEN depositExpected - depositPaidTotal ELSE 0
  IN IF amountToPay <= 0 THEN depositExpected ELSE amountToPay

\* A balance that ignores what was paid.
FinalBalanceFull(amountThb, depositPaidTotal) == amountThb

\* balance = Math.max(0, amountThb - depositPaidTotal)
FinalBalance(amountThb, depositPaidTotal) ==
  IF amountThb - depositPaidTotal > 0 THEN amountThb - depositPaidTotal ELSE 0

\* Bodies of /v1/sessions/payment/intent (confirm_key: the X-Confirm-Key
\* header): the three stages for the session S1, and five that are refused.
IntentBodies ==
  { [confirm_key |-> "ck", session_id |-> "S1", payment_stage |-> "deposit",
     tips_amount |-> 0],
    [confirm_key |-> "ck", session_id |-> "S1", payment_stage |-> "final",
     tips_amount |-> 0],
    [confirm_key |-> "ck", session_id |-> "S1", payment_stage |-> "tips",
     tips_amount |-> 200],
    [confirm_key |-> "ck", session_id |-> "S1", payment_stage |-> "tips",
     tips_amount |-> 0],
    [confirm_key |-> "ck", session_id |-> "S1", payment_stage |-> "membership",
     tips_amount |-> 0],
    [confirm_key |-> "ck", session_id |-> "", payment_stage |-> "deposit",
     tips_amount |-> 0],
    [confirm_key |-> "ck", session_id |-> "S9", payment_stage |-> "final",
     tips_amount |-> 0],
    [confirm_key |-> "", session_id |-> "S1", payment_stage |-> "deposit",
     tips_amount |-> 0] }

\* Outcomes of the external calls of one request: the session lookup, the
\* sum of the paid deposits, the verify call. All succeed, or exactly one
\* does not.
IntentAllOk == [ses |-> "ok", sum |-> "ok", verify |-> "ok"]
IntentOutcomes ==
  {IntentAllOk}
    \cup {[IntentAllOk EXCEPT ![f] = "fail"] : f \in {"ses", "sum", "verify"}}

\* An answer of the helper that sent nothing.
IntentReply(code, stage, action, depositExpected, depositPaidTotal) ==
  [code |-> code, stage |-> stage, action |-> action, amount_thb |-> 0,
   deposit_expected |-> depositExpected,
   deposit_paid_total |-> depositPaidTotal, called |-> FALSE,
   telegram |-> FALSE, calls |-> << >>]

\* The whole of handleSessionPaymentIntent: the answer and the verify
\* payloads sent (calls).
handleSessionPaymentIntent(b, ext) ==
  LET stage == b.payment_stage
      amountThb == IF b.session_id = "S1" THEN sessionAmount ELSE 0
      depositPercent == EnvNumber(depositPercentEnv, "30")
      roundStep == EnvNumber(roundStepEnv, "500")
      depositExpected == computeDepositAmount(amountThb, depositPercent, roundStep)
      depositPaidTotal == airtableSumPaidForStage(b.session_id, ext)
      balance == FinalBalance(amountThb, depositPaidTotal)
      amountToPay ==
        IF stage = "deposit" THEN DepositDue(depositExpected, depositPaidTotal)
        ELSE IF stage = "final" THEN balance
        ELSE b.tips_amount
      verifyPayload ==
        [session_id |-> b.session_id, amount_thb |-> amountToPay,
         payment_stage |-> stage]
  IN IF CONFIRM_KEY # "" /\ b.confirm_key # CONFIRM_KEY
     THEN IntentReply(403, stage, "confirm_key_required", 0, 0)
     ELSE IF b.session_id = ""
     THEN IntentReply(400, stage, "missing_session_id", 0, 0)
     ELSE IF stage = ""
     THEN IntentReply(400, stage, "missing_payment_stage", 0, 0)
     ELSE IF stage \notin {"deposit", "final", "tips"}
     THEN IntentReply(400, stage, "invalid_payment_stage", 0, 0)
     ELSE IF ext.ses # "ok"
     THEN IntentReply(503, stage, "airtable_error", 0, 0)
     ELSE IF b.session_id # "S1"
     THEN IntentReply(404, stage, "session_not_found", 0, 0)
     ELSE IF amountThb <= 0
     THEN IntentReply(400, stage, "invalid_session_amount", 0, 0)
     ELSE IF stage = "deposit" /\ depositPaidTotal >= depositExpected
     THEN IntentReply(200, stage, "already_paid", depositExpected,
                      depositPaidTotal)
     ELSE IF stage = "final" /\ balance <= 0
     THEN IntentReply(200, stage, "no_balance_due", depositExpected,
                      depositPaidTotal)
     ELSE IF stage = "tips" /\ b.tips_amount <= 0
     THEN IntentReply(400, stage, "invalid_tips_amount", depositExpected,
                      depositPaidTotal)
     ELSE [code |-> IF ext.verify = "ok" THEN 200 ELSE 502,
           stage |-> stage,
           action |-> IF ext.verify = "ok" THEN "intent"
                      ELSE "payments_verify_failed",
           amount_thb |-> amountToPay,
           deposit_expected |-> depositExpected,
           deposit_paid_total |-> depositPaidTotal,
           called |-> TRUE,
           telegram |-> ext.verify = "ok",
           calls |-> << verifyPayload >>]

SessionPaymentIntent(b, ext) ==
  LET out == handleSessionPaymentIntent(b, ext)
  IN /\ Len(verifyCalls) + Len(out.calls) <= MaxIntents
     /\ verifyCalls' = verifyCalls \o out.calls
     /\ intentLast' = [f \in DOMAIN NoIntent |-> out[f]]
     /\ UNCHANGED << depositPercentEnv, roundStepEnv, sessionAmount,
                     depositPayments, evVars, payVars, inflight >>

\* The Payments table gets one more paid deposit payment of the session (a
\* notify of the payments worker, or an edit in the table).
DepositAmounts == {500, 4000}
DepositPaid(a) ==
  /\ Len(depositPayments) < MaxDeposits
  /\ depositPayments' = Append(depositPayments, a)
  /\ UNCHANGED << depositPercentEnv, roundStepEnv, sessionAmount, verifyCalls,
                  intentLast, evVars, payVars, inflight >>

IntentNext ==
  \/ \E b \in IntentBodies, ext \in IntentOutcomes : SessionPaymentIntent(b, ext)
  \/ \E a \in DepositAmounts : DepositPaid(a)

\* The deposit configuration (DEPOSIT_PERCENT and DEPOSIT_ROUND_STEP, "" when
\* not set) and the session's amount (0: the field is empty).
IntentConfigs ==
  { << "", "", 12345 >>, << "", "", 0 >>, << "", "", 1000 >>,
    << "50", "100", 1667 >>, << "50", "", 5000 >>, << "", "0", 1 >> }

IntentInit ==
  /\ WorkersInit /\ kvBound
  /\ \E c \in IntentConfigs :
       /\ depositPercentEnv = c[1]
       /\ roundStepEnv = c[2]
       /\ sessionAmount = c[3]
  /\ depositPayments = << >>
  /\ verifyCalls = << >>
  /\ intentLast = NoIntent

IntentSpec == IntentInit /\ [][IntentNext]_vars

\* ------------------------------------------------------------------ claims
\* The configured percent and round step of the running helper.
ConfiguredPercent == EnvNumber(depositPercentEnv, "30")
ConfiguredStep == EnvNumber(roundStepEnv, "500")

\* d = ceil(amount * percent / 100 / step) * step, said without a division:
\* d is a multiple of step, not less than amount * percent / 100, and the
\* multiple below it is less than that.
IsCeilToStep(d, amount, percent, step) ==
  /\ d % step = 0
  /\ d * 100 >= amount * percent
  /\ (d - step) * 100 < amount * percent

C27_Amounts == {1, 99, 100, 1000, 1667, 5000, 12345, 100000}
C27_Percents == {1, 30, 50, 100}
C27_Steps == {1, 100, 500, 1000}

\* C27: deposit_expected = ceil(session_amount * deposit_percent / 100 /
\* round_step) * round_step for every positive session amount: a multiple
\* of the round step, never less than session_amount * deposit_percent /
\* 100, and 12345, 30, 500 gives 4000. Every answer of the helper that
\* reports a deposit_expected reports this value for the session's amount
\* and the configured percent and step.
C27_DepositRounding ==
  /\ computeDepositAmount(12345, 30, 500) = 4000
  /\ \A a \in C27_Amounts, p \in C27_Percents, st \in C27_Steps :
       IsCeilToStep(computeDepositAmount(a, p, st), a, p, st)
  /\ \A b \in IntentBodies, ext \in IntentOutcomes :
       LET out == handleSessionPaymentIntent(b, ext)
       IN (out.code = 200 /\ sessionAmount > 0 /\ ConfiguredStep > 0)
            => IsCeilToStep(out.deposit_expected, sessionAmount,
                            ConfiguredPercent, ConfiguredStep)
  /\ (intentLast.code = 200 /\ ConfiguredStep > 0)
       => IsCeilToStep(intentLast.deposit_expected, sessionAmount,
                       ConfiguredPercent, ConfiguredStep)

\* A deposit intent of the session of 12345 under the default configuration
\* (30 percent, step 500) was requested: the deposit expected is 4000.
C27_Witness ==
  /\ sessionAmount = 12345 /\ depositPercentEnv = "" /\ roundStepEnv = ""
  /\ intentLast.code = 200 /\ intentLast.stage = "deposit"
  /\ intentLast.called
  /\ intentLast.deposit_expected = 4000

\* The valid requests of one stage for the session S1.
StageBodies(stage) ==
  {b \in IntentBodies :
     /\ b.confirm_key = CONFIRM_KEY /\ b.session_id = "S1"
     /\ b.payment_stage = stage}

\* The outcomes whose session lookup succeeds.
SessionFound == {ext \in IntentOutcomes : ext.ses = "ok"}

\* The verify payload of one stage and amount.
IntentFor(stage, amount) ==
  [session_id |-> "S1", amount_thb |-> amount, payment_stage |-> stage]

\* C28 as stated: for stage deposit the amount charged is max(0,
\* deposit_expected - already_paid_deposit_total), and when that is not
\* positive an intent for the full deposit_expected is requested.
C28_FallbackChargesFullDeposit ==
  sessionAmount > 0 =>
    \A b \in StageBodies("deposit"), ext \in SessionFound :
      LET out == handleSessionPaymentIntent(b, ext)
          depositExpected ==
            computeDepositAmount(sessionAmount, ConfiguredPercent, ConfiguredStep)
          depositPaidTotal == airtableSumPaidForStage("S1", ext)
      IN out.calls =
           << IntentFor("deposit",
                        IF depositExpected - depositPaidTotal > 0
                        THEN depositExpected - depositPaidTotal
                        ELSE depositExpected) >>

\* C28 (amended): for stage deposit, while the paid deposit total is less
\* than deposit_expected, an intent for deposit_expected minus the paid
\* total is requested; once the paid total reaches deposit_expected the
\* helper answers already_paid and requests nothing: no verify call, no
\* notification, no fallback to the full deposit.
C28_DepositDueOrAlreadyPaid ==
  sessionAmount > 0 =>
    /\ \A b \in StageBodies("deposit"), ext \in SessionFound :
         LET out == handleSessionPaymentIntent(b, ext)
             depositExpected ==
               computeDepositAmount(sessionAmount, ConfiguredPercent,
                                    ConfiguredStep)
             depositPaidTotal == airtableSumPaidForStage("S1", ext)
         IN IF depositPaidTotal < depositExpected
            THEN /\ out.calls =
                      << IntentFor("deposit", depositExpected - depositPaidTotal) >>
                 /\ out.amount_thb > 0
            ELSE /\ out.code = 200 /\ out.action = "already_paid"
                 /\ out.calls = << >>
                 /\ ~out.called /\ ~out.telegram
    /\ \A i \in DOMAIN verifyCalls :
         verifyCalls[i].payment_stage = "deposit"
           => /\ verifyCalls[i].amount_thb > 0
              /\ verifyCalls[i].amount_thb <=
                   computeDepositAmount(sessionAmount, ConfiguredPercent,
                                        ConfiguredStep)

\* After 500 of the 4000 expected were paid an intent for 3500 was
\* requested; then the rest and more was paid and the next deposit request
\* was answered already_paid.
C28_Witness ==
  /\ verifyCalls = << IntentFor("deposit", 3500) >>
  /\ SumOf(depositPayments) >= 4000
  /\ intentLast.stage = "deposit" /\ intentLast.action = "already_paid"
  /\ intentLast.deposit_expected = 4000
  /\ ~intentLast.called

\* C29: for stage final the amount due is max(0, session_amount -
\* deposit_paid_total); when it is zero the helper reports no_balance_due
\* and requests nothing (no verify call, no notification), otherwise it
\* requests an intent for the amount due; no verify call ever carries an
\* amount that is not positive.
C29_FinalBalanceNeverZeroIntent ==
  /\ sessionAmount > 0 =>
       \A b \in StageBodies("final"), ext \in SessionFound :
         LET out == handleSessionPaymentIntent(b, ext)
             depositPaidTotal == airtableSumPaidForStage("S1", ext)
             due == IF sessionAmount - depositPaidTotal > 0
                    THEN sessionAmount - depositPaidTotal ELSE 0
         IN IF due = 0
            THEN /\ out.code = 200 /\ out.action = "no_balance_due"
                 /\ out.calls = << >>
                 /\ ~out.called /\ ~out.telegram
            ELSE out.calls = << IntentFor("final", due) >>
  /\ \A b \in IntentBodies, ext \in IntentOutcomes :
       LET out == handleSessionPaymentIntent(b, ext)
       IN \A i \in DOMAIN out.calls : out.calls[i].amount_thb > 0
  /\ \A i \in DOMAIN verifyCalls : verifyCalls[i].amount_thb > 0
  /\ intentLast.action = "no_balance_due" => ~intentLast.called

\* The deposits paid cover the whole amount of the session, and a final
\* request was answered no_balance_due without a verify call.
C29_Witness ==
  /\ sessionAmount > 0
  /\ SumOf(depositPayments) >= sessionAmount
  /\ intentLast.code = 200 /\ intentLast.stage = "final"
  /\ intentLast.action = "no_balance_due"
  /\ verifyCalls = << >>

\* ------------------------------------------------------- confirm key claims
\* The headers that carry the configured key, in X-Confirm-Key or as a
\* bearer token.
CarriesKey(h) ==
  \/ h.x_confirm_key = CONFIRM_KEY
  \/ h.authorization \in {"Bearer " \o CONFIRM_KEY, "bearer " \o CONFIRM_KEY}

\* An answer of the events worker that is a 401 and did nothing: no call to
\* the jobs table, the KV or any other service, and both stores as before.
Quiet401(out) ==
  /\ out.code = 401
  /\ out.calls = << >>
  /\ out.jobs = jobs /\ out.kv = kv /\ out.now = now

\* C30: a job/create or job/event request whose headers do not carry the
\* configured confirm key, and a payments notify request whose X-Confirm-Key
\* is not the key, is answered 401 and reads and writes nothing: no call to
\* a table or a KV, no ledger entry, no notification, whatever its body and
\* whatever the external calls would have answered.
C30_GateBeforeAnything ==
  /\ \A h \in RequestHeaders :
       ~CarriesKey(h) =>
         /\ \A p \in CreateRequests, ext \in Outcomes :
              Quiet401(fetchV1(h, JobCreateOut(p, ext)))
         /\ \A p \in EventRequests, ext \in Outcomes :
              Quiet401(fetchV1(h, JobEventOut(p, ext)))
  /\ \A body \in NotifyBodies, ext \in NotifyOutcomes :
       body.confirm_key # CONFIRM_KEY =>
         LET out == handleNotify(ParseNotifyBody(body), ext)
         IN /\ out.code = 401
            /\ out.did = << >>
            /\ out.payments = payments /\ out.sessions = sessions
            /\ out.memberPackages = memberPackages
            /\ out.pointsLedger = pointsLedger
  /\ last.code = 401 => ~last.wrote /\ ~last.effects /\ ~last.stored

\* A job exists, and a job/event request without the key was answered 401.
C30_Witness ==
  /\ Len(jobs) > 0
  /\ last.op = "job/event" /\ last.code = 401
  /\ ~last.wrote /\ ~last.effects /\ ~last.stored

\* ---------------------------------------------------- further events claims
\* The calls job/event makes only once the record is saved.
AfterSaveCalls == SideEffectCalls \cup {"kv_put"}

\* C31: in job/event the realtime open, the notifications and the write of
\* the idempotency record come only after the one PATCH of the job record
\* (status, last_update_at, events) has succeeded; when the PATCH fails the
\* call answers an error, triggers no side effect and stores no idempotency
\* record; a freshly computed 200 implies the record holds the new status,
\* time and event.
C31_SavedBeforeEffects ==
  /\ \A p \in EventRequests, ext \in Outcomes :
       LET out == JobEventOut(p, ext)
           cs == out.calls
           i == Target(p)
       IN /\ \A n \in 1..Len(cs) :
               cs[n] \in AfterSaveCalls =>
                 /\ \E m \in 1..(n - 1) : cs[m] = "airtable_patch"
                 /\ out.jobs # jobs
          /\ (ReachesRecord(p, ext) /\ ext.at_write # "ok") =>
               /\ out.code >= 400
               /\ out.jobs = jobs /\ out.kv = kv
               /\ \A n \in 1..Len(cs) : cs[n] \notin AfterSaveCalls
          /\ Fresh(out) =>
               /\ i # 0
               /\ out.jobs[i].fields.status = out.body.status
               /\ out.jobs[i].fields.last_update_at = now
               /\ EventsIn(out.jobs, i) =
                    Append(StoredEvents(i), NewEvent(p, now))
               /\ Count(cs, "airtable_patch") = 1
          /\ out.kv # kv => out.jobs # jobs
  /\ last.op = "job/event" =>
       /\ (last.effects \/ last.stored) => last.wrote
       /\ (last.code = 200 /\ ~last.replayed) => last.wrote

\* A job/event call saved the record, then made a side-effect call and
\* stored its idempotency record, and answered 200.
C31_Witness ==
  /\ kvBound
  /\ last.op = "job/event" /\ last.code = 200 /\ ~last.replayed
  /\ last.wrote /\ last.effects /\ last.stored

\* ------------------------------------------------------- damaged event logs
\* The jobs table is an Airtable table others can edit: the events_json of a
\* record is emptied, replaced by text that is not JSON, or by the text
\* "null" (specification StoredLogSpec).
DamagedLogs == { << >>, << "corrupt" >> }

LogDamaged(i, text) ==
  /\ i \in 1..Len(jobs)
  /\ jobs[i].fields.events_json # text
  /\ jobs' = [jobs EXCEPT ![i].fields.events_json = text]
  /\ UNCHANGED << intentVars, gated, kv, kvBound, now, last, firstOk, ran, payVars,
                  inflight >>

\* The job is created, then events are sent with the external calls
\* succeeding or the PATCH failing.
StoredLogNext ==
  \/ \E p \in RaceCreateRequests : JobCreate(p, AllOk)
  \/ \E p \in EventRequests, ext \in {AllOk, [AllOk EXCEPT !.at_write = "fail"]} :
       JobEvent(p, ext)
  \/ \E i \in 1..Len(jobs), text \in DamagedLogs \cup {NullText} :
       LogDamaged(i, text)

StoredLogSpec == Init /\ [][StoredLogNext]_vars

\* C32: a job/event call that reaches a record whose stored log is missing
\* or does not parse is handled with the log taken as empty: it is answered
\* 409 exactly when the status it resolves to is work_started and its own
\* event is not final_payment_confirmed; otherwise the log written is the new
\* event alone, and the call is answered 200 when the external calls succeed.
C32_DamagedLogTakenAsEmpty ==
  \A p \in EventRequests, ext \in Outcomes :
    LET i == Target(p)
        out == JobEventOut(p, ext)
        status == ResolveStatus(p.statusFromBody, p.event,
                                str(jobs[i].fields.status))
    IN (ReachesRecord(p, ext) /\ jobs[i].fields.events_json \in DamagedLogs) =>
         /\ out.code = 409 <=>
              (status = "work_started" /\ p.event # "final_payment_confirmed")
         /\ (out.code # 409 /\ ext.at_write = "ok") =>
              out.jobs[i].fields.events_json =
                JSONstringify(<< NewEvent(p, now) >>)
         /\ (out.code # 409 /\ ext = AllOk) => out.code = 200
         /\ out.code = 409 => Quiet(out)

\* The log of a record was damaged, and a job/event call on it was answered
\* 200: the stored log is now the one event of that call.
C32_Witness ==
  /\ last.op = "job/event" /\ last.code = 200 /\ last.wrote
  /\ Len(jobs) = 1
  /\ JSONparses(jobs[1].fields.events_json)
  /\ Len(JSONparse(jobs[1].fields.events_json)) = 1
  /\ JSONparse(jobs[1].fields.events_json)[1].event # "created"

\* A job/event call that reaches a record whose stored log is the text
\* "null" is answered 500 and changes nothing.
StoredNullLogFails ==
  \A p \in EventRequests, ext \in Outcomes :
    LET i == Target(p)
        out == JobEventOut(p, ext)
    IN (ReachesRecord(p, ext) /\ jobs[i].fields.events_json = NullText) =>
         (out.code = 500 /\ Quiet(out))

\* --------------------------------------------------------- job_id identity
\* C33 as stated: after any sequence of job/create calls no two records of
\* the jobs table share a job_id.
C33_JobIdUnique ==
  \A i, j \in 1..Len(jobs) :
    i # j => jobs[i].fields.job_id # jobs[j].fields.job_id

\* ------------------------------------------------- retry after a rejection
\* Requests that carry the idempotency key k1: a work_started for the job
\* J1 and those of EventRequests with a key (two of them with no job_id or
\* for a job no record has); and the final_payment_confirmed for J1 that
\* carries no key (specification RetrySpec, the store bound).
RetryBodies ==
  { [job_id |-> "J1", event |-> " Work  Started", status |-> "", by |-> "",
     data |-> "null", idempotency_key |-> "k1"],
    [job_id |-> "J1", event |-> "final_payment_confirmed", status |-> "",
     by |-> "", data |-> "null", idempotency_key |-> ""] }

RetryRequests ==
  {ParseEventBody(b) : b \in RetryBodies}
    \cup {p \in EventRequests : p.idemKey # ""}

RetryNext ==
  \/ \E p \in RaceCreateRequests : JobCreate(p, AllOk)
  \/ \E p \in RetryRequests, ext \in Outcomes : JobEvent(p, ext)

RetryInit == Init /\ kvBound

RetrySpec == RetryInit /\ [][RetryNext]_vars

\* C34: a job/event call answered 409, 404 or 422 stores nothing under its
\* idempotency key and changes nothing; the store holds a record under a
\* key only after a call carrying it was answered with a fresh 200; with
\* nothing stored under its key a call is executed as the same call without
\* a key; and once final_payment_confirmed is in the log, the work_started
\* call the gate stopped before, sent again under the same key, succeeds.
C34_RejectedStoresNothing ==
  /\ \A p \in RetryRequests, ext \in Outcomes :
       LET out == JobEventOut(p, ext)
           out0 == JobEventOut([p EXCEPT !.idemKey = ""], ext)
       IN /\ out.code \in {409, 404, 422} =>
               /\ out.kv = kv /\ out.jobs = jobs
               /\ Count(out.calls, "kv_put") = 0
          /\ (/\ p.idemKey # "" /\ kv["idem:" \o p.idemKey] = << >>
              /\ ext.kv_get = "ok" /\ ext.kv_put = "ok") =>
               /\ out.code = out0.code /\ out.jobs = out0.jobs
               /\ "idempotent" \notin DOMAIN out.body
  /\ \A k \in IdemKeys :
       /\ kv["idem:" \o k] # << >> => firstOk[k] # << >>
       /\ \A p \in RetryRequests :
            (/\ p.idemKey = k /\ gated[k] /\ firstOk[k] = << >>
             /\ p.event = "work_started" /\ Target(p) # 0
             /\ hasFinalPaymentConfirmed(StoredEvents(Target(p)))) =>
              LET out == JobEventOut(p, AllOk)
              IN /\ Fresh(out)
                 /\ out.jobs[Target(p)].fields.status = "work_started"
  /\ (last.op = "job/event" /\ last.code \in {409, 404, 422}) =>
       (~last.stored /\ ~last.wrote /\ ~last.effects)

\* The work_started call under k1 was stopped by the gate; after
\* final_payment_confirmed it was sent again under k1 and answered with a
\* fresh 200, and only now the store remembers a result under k1.
C34_Witness ==
  /\ gated["k1"]
  /\ last.op = "job/event" /\ last.code = 200 /\ ~last.replayed
  /\ last.wrote /\ last.stored
  /\ firstOk["k1"] # << >>
  /\ firstOk["k1"][1].req.event = "work_started"
  /\ jobs[1].fields.status = "work_started"

\* ------------------------------------------------------------- rules/ack
\* Bodies of /v1/rules/ack: under the idempotency key k1 with and without
\* an accepted_at of its own, and without a key.
AckBodies ==
  { [role |-> "model", rules |-> "v1", session_id |-> "S1",
     accepted_at |-> "2026-01-01T09:00", idempotency_key |-> " k1"],
    [role |-> "model", rules |-> "v1", session_id |-> "S1",
     accepted_at |-> "", idempotency_key |-> "k1"],
    [role |-> "", rules |-> "v1", session_id |-> "S1",
     accepted_at |-> "2026-01-01T09:00", idempotency_key |-> ""] }

\* The whole of /v1/rules/ack: the acknowledgement is answered, and
\* remembered under the idempotency key when one is given and nothing
\* successful is remembered under it yet.
RulesAckOut(b, ext) ==
  LET out == [ok |-> TRUE, accepted |-> TRUE,
              role |-> IF str(b.role) # "" THEN str(b.role) ELSE "null",
              rules |-> IF str(b.rules) # "" THEN str(b.rules) ELSE "null",
              session_id |-> IF str(b.session_id) # "" THEN str(b.session_id)
                             ELSE "null",
              accepted_at |-> IF str(b.accepted_at) # "" THEN str(b.accepted_at)
                              ELSE ToString(now)]
      idemKey == str(b.idempotency_key)
      raw == kv["idem:" \o idemKey]
  IN IF idemKey = ""
     THEN Reply(200, out, << >>)
     ELSE IF ~kvBound
     THEN Reply(200, out, << >>)
     ELSE IF ext.kv_get # "ok"
     THEN Reply(500, [ok |-> FALSE, error |-> "server_error"], << "kv_get" >>)
     ELSE IF PrevOk(raw)
     THEN Reply(200, ReplayBody(JSONparse(raw)), << "kv_get" >>)
     ELSE IF ext.kv_put # "ok"
     THEN Reply(500, [ok |-> FALSE, error |-> "server_error"],
                << "kv_get", "kv_put" >>)
     ELSE [Reply(200, out, << "kv_get", "kv_put" >>) EXCEPT
             !.kv = [kv EXCEPT !["idem:" \o idemKey] =
                       JSONstringify(IdemRecord(out))]]

RulesAck(b, ext) ==
  LET out == RulesAckOut(b, ext)
  IN /\ kv' = out.kv
     /\ last' = Did("rules/ack", out, FALSE)
     /\ UNCHANGED << intentVars, gated, jobs, kvBound, now, firstOk, ran,
                     payVars, inflight >>

\* job/create, job/event and rules/ack on one idempotency store
\* (specification SharedKeySpec).
SharedKeyNext ==
  \/ RetryNext
  \/ \E b \in AckBodies, ext \in Outcomes : RulesAck(b, ext)

SharedKeySpec == RetryInit /\ [][SharedKeyNext]_vars

\* The value stored under a key is a remembered success.
HoldsSuccess(k) ==
  /\ kv["idem:" \o k] # << >>
  /\ kv["idem:" \o k][1] = "json"
  /\ kv["idem:" \o k][2].ok

\* C35: the idempotency lookup of job/event goes by the key alone, on the
\* store rules/ack uses too: a valid job/event call whose key holds a
\* remembered success, whoever stored it (a call for another job, with
\* another event, or rules/ack), is answered 200 with that stored result,
\* marked idempotent, and changes neither the jobs table nor the store; and
\* rules/ack under such a key answers the stored result likewise.
C35_KeyAloneDecides ==
  /\ \A p \in RetryRequests, ext \in Outcomes :
       (/\ p.job_id # "" /\ p.event # "" /\ p.idemKey # ""
        /\ HoldsSuccess(p.idemKey) /\ ext.kv_get = "ok") =>
         LET out == JobEventOut(p, ext)
         IN /\ out.code = 200
            /\ out.body = [ok |-> TRUE, idempotent |-> TRUE,
                           result |-> kv["idem:" \o p.idemKey][2].result]
            /\ out.jobs = jobs /\ out.kv = kv
            /\ out.calls = << "kv_get" >>
  /\ \A b \in AckBodies, ext \in Outcomes :
       (/\ str(b.idempotency_key) # "" /\ HoldsSuccess(str(b.idempotency_key))
        /\ ext.kv_get = "ok") =>
         LET out == RulesAckOut(b, ext)
         IN /\ out.code = 200
            /\ out.body.result = kv["idem:" \o str(b.idempotency_key)][2].result
            /\ out.kv = kv

\* rules/ack stored its answer under k1; then a job/event call for the job
\* J1 under k1 was answered 200 from the store, and the job still has the
\* one event of its creation.
C35_Witness ==
  /\ HoldsSuccess("k1")
  /\ "accepted" \in DOMAIN kv["idem:k1"][2].result
  /\ last.op = "job/event" /\ last.code = 200 /\ last.replayed
  /\ ~last.wrote /\ ~last.effects /\ ~last.stored
  /\ Len(jobs) = 1 /\ Len(StoredEvents(1)) = 1

\* ------------------------------------------------ further payments claims
\* A payment record for the reference exists and is marked paid.
PaidRecordFor(ref) ==
  \E r \in 1..Len(payments) :
    /\ payments[r].fields.payment_ref = ref
    /\ payments[r].fields.payment_status = "Paid"

\* C36 as stated: a Member-Package or Points ledger entry for a reference,
\* and any session payment-status update, is written only when a payment
\* record mapped from the reference exists and the same notify call marked
\* it paid before; a notify for a reference with no stored mapping writes
\* nothing.
C36_WritesOnlyAfterMarkedPaid ==
  /\ \A e \in 1..Len(memberPackages) : PaidRecordFor(memberPackages[e].payment_ref)
  /\ \A e \in 1..Len(pointsLedger) : PaidRecordFor(pointsLedger[e].payment_ref)
  /\ \A i \in 1..Len(notified) : notified[i].session_updated => notified[i].marked
  /\ \A b \in NotifyRequests, ext \in NotifyOutcomes :
       LET out == handleNotify(b, ext)
       IN KvGet(payKv, "payrec:" \o b.transaction_ref) = "" =>
            /\ out.sessions = sessions
            /\ out.memberPackages = memberPackages
            /\ out.pointsLedger = pointsLedger


\* ------------------------------------------------- stage given on the notify
\* Notify bodies for an intent created for a deposit: one that names the
\* membership stage in payment_stage, one that names it only in stage, one
\* that names no stage, and one for a reference no intent was created for,
\* which names its stage only in stage.
OverrideBodies ==
  { [confirm_key |-> "ck", transaction_ref |-> "R1",
     payment_stage |-> "Membership", stage |-> "final", session_id |-> "",
     package_code |-> "PKG", member_email |-> "a@x.io", amount |-> 250],
    [confirm_key |-> "ck", transaction_ref |-> "R1", payment_stage |-> "",
     stage |-> "membership", session_id |-> "", package_code |-> "PKG",
     member_email |-> "a@x.io", amount |-> 250],
    [confirm_key |-> "ck", transaction_ref |-> "R1", payment_stage |-> "",
     stage |-> "", session_id |-> "", package_code |-> "",
     member_email |-> "a@x.io", amount |-> 0],
    [confirm_key |-> "ck", transaction_ref |-> "R9", payment_stage |-> "",
     stage |-> " Tips", session_id |-> "S1", package_code |-> "",
     member_email |-> "a@x.io", amount |-> 100] }

OverrideRequests == {ParseNotifyBody(b) : b \in OverrideBodies}

\* Deposit intents are created and notified with the bodies above.
StageOverrideNext ==
  \/ \E p \in {q \in VerifyRequests : q.payment_stage = "deposit"},
        ext \in VerifyOutcomes : Verify(p, ext)
  \/ \E b \in OverrideRequests, ext \in NotifyOutcomes : Notify(b, ext)

StageOverrideSpec == PayInit /\ [][StageOverrideNext]_vars

\* The stage written in the notes of the payment record a reference maps
\* to, "" when the reference maps to none or the record cannot be read.
RecordedStage(ref, ext) ==
  LET id == KvGet(payKv, "payrec:" \o ref)
      ri == IF id # "" /\ ext.at_read = "ok" THEN RecordAt(payments, id) ELSE 0
  IN IF ri = 0 THEN "" ELSE stageFromNotesOf(payments[ri].fields.notes)

\* The first non-empty of three texts, "" when all are empty.
FirstGiven(a, b, c) == IF a # "" THEN a ELSE IF b # "" THEN b ELSE c

\* C37: a notify that passes the paid check takes as its stage the first
\* non-empty of the request's payment_stage, the stage in the intent's notes
\* and the request's stage; a notify that names membership in payment_stage
\* for an intent created for a deposit marks the record paid, writes the
\* Member-Package and the Points entry for the reference and leaves every
\* session as it was.
C37_RequestStageWins ==
  \A b \in OverrideRequests \cup NotifyRequests, ext \in NotifyOutcomes :
    LET out == handleNotify(b, ext)
        recorded == RecordedStage(b.transaction_ref, ext)
    IN (out.code = 200 /\ out.did # << >>) =>
         /\ out.did[1].stage
              = normalizeStage(FirstGiven(b.payment_stage, recorded, b.stage))
         /\ ( /\ b.payment_stage = "membership"
              /\ recorded = "deposit"
              /\ out.did[1].marked
              /\ ext = NotifyAllOk
              /\ b.member_email # "" /\ b.package_code # "" ) =>
              /\ out.body.stage = "membership"
              /\ out.sessions = sessions
              /\ ~out.body.session_updated
              /\ EntriesFor(out.memberPackages, b.transaction_ref) # {}
              /\ EntriesFor(out.pointsLedger, b.transaction_ref) # {}

\* A deposit intent has been marked paid by a notify that named membership:
\* both ledgers hold an entry for its reference and the session is untouched.
C37_Witness ==
  /\ \E i \in 1..Len(payments) :
       /\ stageFromNotesOf(payments[i].fields.notes) = "deposit"
       /\ payments[i].fields.payment_status = "Paid"
       /\ KvGet(payKv, "payrec:R1") = payments[i].id
  /\ \E n \in 1..Len(notified) :
       /\ notified[n].transaction_ref = "R1"
       /\ notified[n].stage = "membership"
       /\ notified[n].marked
       /\ ~notified[n].session_updated
  /\ EntriesFor(memberPackages, "R1") # {}
  /\ EntriesFor(pointsLedger, "R1") # {}
  /\ \A i \in 1..Len(sessions) : sessions[i].payment_status = "pending"


\* ------------------------------------- the helper's intent, as verify reads it
\* What handleVerify reads off the JSON the helper posts: session_id and
\* payment_stage as sent, amount from body.amount and package_code from
\* body.package_code, each taken as absent when the payload has no such field.
VerifyReads(payload) ==
  ParseVerifyBody(
    [session_id |-> payload.session_id,
     payment_stage |-> payload.payment_stage,
     amount |-> IF "amount" \in DOMAIN payload THEN payload.amount ELSE 0,
     package_code |-> IF "package_code" \in DOMAIN payload
                      THEN payload.package_code ELSE ""])

\* The helper's request with callPaymentsVerify answered by handleVerify:
\* the verify call fails when handleVerify answers other than 2xx.
HelperIntent(b, iext, vext) ==
  LET sent == handleSessionPaymentIntent(b, [iext EXCEPT !.verify = "ok"]).calls
      p == VerifyReads(sent[1])
      v == handleVerify(p, vext)
      out == handleSessionPaymentIntent(b,
               [iext EXCEPT !.verify = IF sent # << >> /\ v.code = 200
                                       THEN "ok" ELSE "fail"])
  IN /\ Len(verifyCalls) + Len(sent) <= MaxIntents
     /\ verifyCalls' = verifyCalls \o sent
     /\ intentLast' = [f \in DOMAIN NoIntent |-> out[f]]
     /\ IF sent = << >>
        THEN UNCHANGED << payKv, payments, nextRef, issued, paySteps >>
        ELSE /\ payKv' = v.payKv
             /\ payments' = v.payments
             /\ nextRef' = v.nextRef
             /\ paySteps' = paySteps
             /\ issued' =
                  IF v.code = 200
                  THEN Append(issued,
                         [key |-> << p.session_id, p.payment_stage >>,
                          found |-> KvGet(payKv, intentKey(p)) # "",
                          transaction_ref |-> v.body.transaction_ref,
                          idempotent |-> v.body.idempotent,
                          warning |-> "warning" \in DOMAIN v.body,
                          created |-> v.payments # payments,
                          paid |-> RefPaid(v.body.transaction_ref)])
                  ELSE issued
     /\ UNCHANGED << depositPercentEnv, roundStepEnv, sessionAmount,
                     depositPayments, sessions, memberPackages, pointsLedger,
                     notified, evVars, inflight >>

HelperPayNext ==
  \/ \E b \in IntentBodies, iext \in IntentOutcomes, vext \in VerifyOutcomes :
       HelperIntent(b, iext, vext)
  \/ \E a \in DepositAmounts : DepositPaid(a)

HelperPaySpec == IntentInit /\ [][HelperPayNext]_vars

\* C38: the payment record created for an intent the helper asked for
\* stores the amount to pay the helper sent for that stage.
C38_StoredAmountIsSent ==
  \A i \in 1..Len(payments), c \in 1..Len(verifyCalls) :
    stageFromNotesOf(payments[i].fields.notes) = verifyCalls[c].payment_stage
      => payments[i].fields.amount = verifyCalls[c].amount_thb


\* ------------------------------------------------- one payment per intent
\* The references issued for a (session_id, payment_stage) pair.
RefsIssuedFor(key) ==
  {issued[i].transaction_ref : i \in {j \in 1..Len(issued) : issued[j].key = key}}

\* The payment records marked paid that carry one of the references.
PaidRecordsOf(refs) ==
  {i \in 1..Len(payments) :
     /\ payments[i].fields.payment_ref \in refs
     /\ payments[i].fields.payment_status = "Paid"}

\* C39: once the payment record of the reference issued for a
\* (session_id, payment_stage) pair is marked paid, a verify call for the
\* pair that is answered returns that reference with idempotent = true and
\* creates no payment record, and a notify call for the reference that reads
\* the record answers already_paid and writes nothing; at most one payment
\* record is marked paid for a pair.
C39_OnePaymentPerIntent ==
  /\ \A p \in VerifyRequests, ext \in VerifyOutcomes :
       LET key == << p.session_id, p.payment_stage >>
           out == handleVerify(p, ext)
       IN (VerifyInvalid(p) = "" /\ PaidRecordsOf(RefsIssuedFor(key)) # {}) =>
            /\ out.payments = payments
            /\ out.code = 200 =>
                 /\ out.body.transaction_ref \in RefsIssuedFor(key)
                 /\ out.body.idempotent
                 /\ "warning" \notin DOMAIN out.body
  /\ \A b \in NotifyRequests, ext \in NotifyOutcomes :
       LET out == handleNotify(b, ext)
       IN (/\ \E i \in 1..Len(issued) :
                issued[i].transaction_ref = b.transaction_ref
           /\ PaidRecordsOf({b.transaction_ref}) # {}
           /\ b.auth /\ ext.kv = "ok" /\ ext.at_read = "ok") =>
            /\ out.code = 200 /\ out.body.already_paid
            /\ out.payments = payments /\ out.sessions = sessions
            /\ out.memberPackages = memberPackages
            /\ out.pointsLedger = pointsLedger
  /\ \A i \in 1..Len(issued) :
       /\ Cardinality(RefsIssuedFor(issued[i].key)) = 1
       /\ Cardinality(PaidRecordsOf(RefsIssuedFor(issued[i].key))) <= 1
       /\ issued[i].paid => (issued[i].idempotent /\ ~issued[i].created)

\* A verify call for a pair was answered after the pair's payment record
\* had been marked paid: it returned the reference first issued, with
\* idempotent = true, and the payments table still holds the one paid record.
C39_Witness ==
  \E i, j \in 1..Len(issued) :
    /\ i < j /\ issued[i].key = issued[j].key
    /\ ~issued[i].paid /\ issued[i].created
    /\ issued[j].paid /\ issued[j].idempotent /\ ~issued[j].created
    /\ issued[j].transaction_ref = issued[i].transaction_ref
    /\ \E n \in 1..Len(notified) :
         notified[n].transaction_ref = issued[i].transaction_ref
           /\ notified[n].marked
    /\ Len(payments) = 1 /\ payments[1].fields.payment_status = "Paid"

====
